---- MODULE Spec2Model ----
(***************************************************************************)
(* Crediscan company-intelligence engine: the cache store                  *)
(* (utils/cache_manager.py), the company analyzer                          *)
(* (services/company_crawler.py) and the analyze / discover request        *)
(* handlers (routers/analyzer.py, routers/discover.py).                    *)
(*                                                                         *)
(* Specifications:                                                         *)
(*   SpecKey     get_cache_key as a pure function of a parameter mapping   *)
(*   SpecCache   one CacheManager object and its backing file              *)
(*   SpecAnalyze one run of CompanyAnalyzer.analyze_company, step by step  *)
(*   SpecAnalyzeLive the same run, where every step taken returns          *)
(*   Spec        concurrent analyze / discover request handlers sharing    *)
(*               the two module-level caches                               *)
(*   SpecUrl     normalize_url as a pure function of a URL text            *)
(*   SpecValid   one run of CompanyAnalyzer.get_valid_urls, probe by probe *)
(*   SpecMerge   the merge rules as pure functions of a fragment sequence  *)
(*   SpecDiscover one discover request over several listing pages          *)
(*   SpecRetry   one call of get_company_info or query_model under its     *)
(*               retry decorator (routers/aggregate.py, utils/model_api.py)*)
(***************************************************************************)
EXTENDS Integers, Sequences, FiniteSets, TLC

VARIABLES
    kparams,    \* SpecKey: the parameter mapping under test (insertion-ordered items)
    kkey0,      \* SpecKey: get_cache_key of the mapping first drawn
    ksteps,     \* SpecKey: the rewrites applied so far ("permute", "coerce")
    cache,      \* CacheManager.cache of each cache file: the in-memory document
    file,       \* the backing file of each cache file
    clock,      \* datetime.now(), as a logical clock
    saved,      \* history: key -> result of the save_result calls that returned, per cache object
    lastop,     \* SpecCache: the last cache operation and its outcome
    an,         \* SpecAnalyze: the local state of one analyze_company run
    req,        \* Spec: the request handlers (position, parameters, response)
    hist,       \* Spec: for each cache file, the outcome of the last write to it
    nu,         \* SpecUrl: the URL text under test and what normalize_url made of it
    gv,         \* SpecValid: the local state of one get_valid_urls run
    mg,         \* SpecMerge: the fragment sequence under test and its merged fields
    dq,         \* SpecDiscover: the state of one discover request
    rt          \* SpecRetry: one call of a retry-wrapped function, attempt by attempt

keyVars   == <<kparams, kkey0, ksteps>>
cacheVars == <<cache, file, clock, saved, lastop>>
unitVars  == <<nu, gv, mg, dq, rt>>
vars      == <<kparams, kkey0, ksteps, cache, file, clock, saved, lastop, an, req, hist,
               nu, gv, mg, dq, rt>>

(***************************************************************************)
(* Bounds of the model                                                     *)
(***************************************************************************)
MaxParams == 2      \* items in a parameter mapping drawn for get_cache_key
MaxClock  == 3      \* save_result calls per run of the cache specification
MaxReqs   == 2      \* request handlers in the handler specification
MaxPages  == 2      \* URLs the validator confirms in one analysis
MaxLabels == 2      \* host prefixes ("www.", "w", "ww.") put before x.com in a URL text
MaxPaths  == 2      \* sub-paths of the candidate path list the validator probes
MaxFrags  == 3      \* fragments in a sequence drawn for the merge rules
MaxListings == 2    \* listing URLs of the discover request of SpecDiscover

(***************************************************************************)
(* JSON values.  A scalar is [t, s]: t is "str", "int" or "url" (a         *)
(* pydantic HttpUrl) and s its text; a list is [t |-> "list", l].          *)
(***************************************************************************)
Str(s)  == [t |-> "str", s |-> s]
Int_(s) == [t |-> "int", s |-> s]
Url(s)  == [t |-> "url", s |-> s]
List(l) == [t |-> "list", l |-> l]

Q == "\""

\* str(v) for an HttpUrl v: its text as a plain string
str_url(v) == Str(v.s)

\* json.dumps of a scalar: an HttpUrl is a str subclass and is written as a string
DumpsScalar(v) ==
    IF v.t = "int" THEN v.s ELSE Q \o v.s \o Q

RECURSIVE DumpsItems(_)
DumpsItems(l) ==
    IF l = <<>> THEN ""
    ELSE IF Len(l) = 1 THEN DumpsScalar(l[1])
    ELSE DumpsScalar(l[1]) \o ", " \o DumpsItems(Tail(l))

Dumps(v) ==
    IF v.t = "list" THEN "[" \o DumpsItems(v.l) \o "]" ELSE DumpsScalar(v)

(***************************************************************************)
(* CacheManager.get_cache_key                                              *)
(***************************************************************************)
\* the parameter names of the two endpoints, in Python's string order
KeyOrder == <<"max_companies", "url", "urls">>
Keys     == {KeyOrder[i] : i \in 1..Len(KeyOrder)}
KeyRank(k) == CHOOSE i \in 1..Len(KeyOrder) : KeyOrder[i] = k

\* lines 43-49: every HttpUrl, top-level or inside a list, becomes its str()
Serializable(v) ==
    IF v.t = "list"
    THEN List([i \in 1..Len(v.l) |-> IF v.l[i].t = "url" THEN str_url(v.l[i]) ELSE v.l[i]])
    ELSE IF v.t = "url" THEN str_url(v) ELSE v

\* sorted(items): insertion sort on the (unique) parameter names
RECURSIVE InsertItem(_, _)
InsertItem(it, s) ==
    IF s = <<>> THEN <<it>>
    ELSE IF KeyRank(it[1]) <= KeyRank(s[1][1]) THEN <<it>> \o s
    ELSE <<s[1]>> \o InsertItem(it, Tail(s))

RECURSIVE SortedItems(_)
SortedItems(items) ==
    IF items = <<>> THEN <<>>
    ELSE InsertItem(items[1], SortedItems(Tail(items)))

RECURSIVE DumpsPairs(_)
DumpsPairs(items) ==
    IF items = <<>> THEN ""
    ELSE "[" \o Q \o items[1][1] \o Q \o ", " \o Dumps(items[1][2]) \o "]"
         \o (IF Len(items) = 1 THEN "" ELSE ", " \o DumpsPairs(Tail(items)))

\* a get_cache_key that serializes the items in insertion order
get_cache_key_unsorted(params) ==
    "[" \o DumpsPairs([i \in 1..Len(params) |-> <<params[i][1], Serializable(params[i][2])>>]) \o "]"

get_cache_key(params) ==
    "[" \o DumpsPairs(SortedItems(
        [i \in 1..Len(params) |-> <<params[i][1], Serializable(params[i][2])>>])) \o "]"

(***************************************************************************)
(* Company data (models.py) and the merge rules of analyze_company         *)
(***************************************************************************)
\* a list item extracted by the model: an object [t |-> "obj", kv] whose kv is
\* the sequence of its <<key, value>> pairs in insertion order, or a scalar
Obj(kv) == [t |-> "obj", kv |-> kv]

ObjKeyOrder == <<"name", "role">>
ObjKeyRank(k) == CHOOSE i \in 1..Len(ObjKeyOrder) : ObjKeyOrder[i] = k

RECURSIVE InsertKV(_, _)
InsertKV(it, s) ==
    IF s = <<>> THEN <<it>>
    ELSE IF ObjKeyRank(it[1]) <= ObjKeyRank(s[1][1]) THEN <<it>> \o s
    ELSE <<s[1]>> \o InsertKV(it, Tail(s))

RECURSIVE SortedKV(_)
SortedKV(kv) ==
    IF kv = <<>> THEN <<>> ELSE InsertKV(kv[1], SortedKV(Tail(kv)))

RECURSIVE DumpsKV(_)
DumpsKV(kv) ==
    IF kv = <<>> THEN ""
    ELSE Q \o kv[1][1] \o Q \o ": " \o Q \o kv[1][2] \o Q
         \o (IF Len(kv) = 1 THEN "" ELSE ", " \o DumpsKV(Tail(kv)))

\* a deduplication string that serializes an object's keys as written
ItemStr_unsorted(item) ==
    IF item.t = "obj" THEN "{" \o DumpsKV(item.kv) \o "}" ELSE item.s

\* merge_lists lines 66-72: the deduplication string of an item
ItemStr(item) ==
    IF item.t = "obj" THEN "{" \o DumpsKV(SortedKV(item.kv)) \o "}" ELSE item.s

\* merge_lists, the inner loop over one fragment's items
RECURSIVE MergeItems(_, _, _)
MergeItems(items, result, seen) ==
    IF items = <<>> THEN [result |-> result, seen |-> seen]
    ELSE IF ItemStr(items[1]) \in seen THEN MergeItems(Tail(items), result, seen)
    ELSE MergeItems(Tail(items), Append(result, items[1]), seen \cup {ItemStr(items[1])})

RECURSIVE MergeListsFrom(_, _, _, _)
MergeListsFrom(data_list, key, result, seen) ==
    IF data_list = <<>> THEN result
    ELSE LET m == MergeItems(data_list[1][key], result, seen)
         IN  MergeListsFrom(Tail(data_list), key, m.result, m.seen)

merge_lists(data_list, key) == MergeListsFrom(data_list, key, <<>>, {})

\* a security_assessment value: a scalar, or a map [t |-> "map", m]
Map(m) == [t |-> "map", m |-> m]

\* dict.update
Update(a, b) == [k \in DOMAIN a \cup DOMAIN b |-> IF k \in DOMAIN b THEN b[k] ELSE a[k]]

SecKeyOrder == <<"audit", "risk">>

\* merge_security_assessments lines 84-91 for the keys of one fragment, in order
RECURSIVE MergeSecKeys(_, _, _)
MergeSecKeys(ks, sa, merged) ==
    IF ks = <<>> THEN merged
    ELSE LET k == ks[1]
             v == sa[k]
             m2 == IF k \notin DOMAIN merged THEN Update(merged, k :> v)
                   ELSE IF v.t = "map"
                        THEN IF merged[k].t = "map"
                             THEN Update(merged, k :> Map(Update(merged[k].m, v.m)))
                             ELSE merged
                        ELSE Update(merged, k :> v)
         IN  MergeSecKeys(Tail(ks), sa, m2)

RECURSIVE MergeSecFrom(_, _)
MergeSecFrom(data_list, merged) ==
    IF data_list = <<>> THEN merged
    ELSE LET sa == data_list[1].security_assessment
             ks == SelectSeq(SecKeyOrder, LAMBDA k : k \in DOMAIN sa)
         IN  MergeSecFrom(Tail(data_list), MergeSecKeys(ks, sa, merged))

merge_security_assessments(data_list) == MergeSecFrom(data_list, <<>>)

\* "\n".join(filter(None, texts))
RECURSIVE JoinLines(_)
JoinLines(texts) ==
    IF texts = <<>> THEN ""
    ELSE IF texts[1] = "" THEN JoinLines(Tail(texts))
    ELSE LET rest == JoinLines(Tail(texts))
         IN  IF rest = "" THEN texts[1] ELSE texts[1] \o "\n" \o rest

\* a company_name taken from the last fragment that has one
RECURSIVE FirstName_last(_)
FirstName_last(data_list) ==
    IF data_list = <<>> THEN "Unknown"
    ELSE IF data_list[Len(data_list)].company_name # ""
         THEN data_list[Len(data_list)].company_name
    ELSE FirstName_last(SubSeq(data_list, 1, Len(data_list) - 1))

\* next((d.get("company_name") for d in data if d.get("company_name")), "Unknown")
RECURSIVE FirstName(_)
FirstName(data_list) ==
    IF data_list = <<>> THEN "Unknown"
    ELSE IF data_list[1].company_name # "" THEN data_list[1].company_name
    ELSE FirstName(Tail(data_list))

\* the job titles known to the model, in Python's string order
JobOrder == <<"", "0", "5", "Designer", "Engineer", "engineer">>

\* `if job`: the empty string and the number 0 are falsy
Falsy(v) == (v.t = "str" /\ v.s = "") \/ (v.t = "int" /\ v.s = "0")

\* lines 295-300: all_jobs, the set of str(job) over the truthy job entries
RECURSIVE AllJobs(_)
AllJobs(data_list) ==
    IF data_list = <<>> THEN {}
    ELSE {data_list[1].job_positions[i].s : i \in
              {j \in 1..Len(data_list[1].job_positions) :
                   ~Falsy(data_list[1].job_positions[j])}}
         \cup AllJobs(Tail(data_list))

\* a job list in descending order
SortedJobs_descending(jobs) ==
    LET asc == SelectSeq(JobOrder, LAMBDA j : j \in jobs)
    IN  [i \in 1..Len(asc) |-> asc[Len(asc) + 1 - i]]

\* sorted(list(all_jobs))
SortedJobs(jobs) == SelectSeq(JobOrder, LAMBDA j : j \in jobs)

\* lines 302-313
merged_data(all_extracted_data, base_url) ==
    [company_name        |-> FirstName(all_extracted_data),
     website             |-> base_url,
     background          |-> JoinLines([i \in 1..Len(all_extracted_data) |->
                                  all_extracted_data[i].background]),
     founders            |-> merge_lists(all_extracted_data, "founders"),
     funding             |-> merge_lists(all_extracted_data, "funding"),
     legal_issues        |-> merge_lists(all_extracted_data, "legal_issues"),
     security_assessment |-> merge_security_assessments(all_extracted_data),
     user_reviews        |-> merge_lists(all_extracted_data, "user_reviews"),
     overall_summary     |-> JoinLines([i \in 1..Len(all_extracted_data) |->
                                  all_extracted_data[i].overall_summary]),
     job_positions       |-> SortedJobs(AllJobs(all_extracted_data))]

\* models.py: the List[Dict] fields accept objects only
ListOfDict(l) == \A i \in 1..Len(l) : l[i].t = "obj"

CompanyInfoValid(d) ==
    /\ ListOfDict(d.founders)
    /\ ListOfDict(d.funding)
    /\ ListOfDict(d.legal_issues)
    /\ ListOfDict(d.user_reviews)

\* a CompanyInfo object built from the field dict d, and its .dict()
CompanyInfo(d) == [cls |-> "CompanyInfo", d |-> d]
dict_(obj)     == obj.d

FailedSummary(reason) == "Failed to analyze company: " \o reason

\* lines 322-333: the record returned when the analysis failed
Sentinel(base_url, reason) ==
    CompanyInfo(
    [company_name        |-> "Unknown",
     website             |-> base_url,
     background          |-> "Information not available",
     founders            |-> <<>>,
     funding             |-> <<>>,
     legal_issues        |-> <<>>,
     security_assessment |-> <<>>,
     user_reviews        |-> <<>>,
     overall_summary     |-> FailedSummary(reason),
     job_positions       |-> <<>>])

(***************************************************************************)
(* CacheManager (utils/cache_manager.py)                                   *)
(***************************************************************************)
CacheFiles == {"analyzer_result.json", "discover_result.json"}

\* A JSON document is [shape, m]: shape "map" for an object (m its members),
\* "list" for an array and "num" for a number.  A file is [kind, m]: kind is
\* "missing", "garbage" (not parseable as JSON) or the shape of its document.
EmptyDoc  == [shape |-> "map", m |-> <<>>]
FileKinds == {"missing", "garbage", "list", "num", "map"}
FileOf(kind) == [kind |-> kind, m |-> <<>>]

\* load_cache: json.load of an existing file, {} when it is missing or json.load raises
load_cache(f) ==
    IF f.kind \in {"missing", "garbage"} THEN EmptyDoc
    ELSE [shape |-> f.kind, m |-> f.m]

\* json.dump of a parameter mapping: an HttpUrl is written as a JSON string
JsonParams(params) ==
    [i \in 1..Len(params) |-> <<params[i][1], Serializable(params[i][2])>>]

JsonEntry(e) ==
    [params |-> JsonParams(e.params), result |-> e.result, timestamp |-> e.timestamp]

\* the outcomes of opening and writing the cache file
WriteOutcomes == {"ok", "open_fails", "dump_fails"}

\* a save_cache whose failure reaches the caller
save_cache_raising(doc, f, w) ==
    IF w = "ok"
    THEN [raised |-> FALSE,
          file |-> [kind |-> doc.shape, m |-> [k \in DOMAIN doc.m |-> JsonEntry(doc.m[k])]]]
    ELSE [raised |-> TRUE,
          file |-> IF w = "open_fails" THEN f ELSE FileOf("garbage")]

\* save_cache: rewrites the whole document; an exception is printed and swallowed.
\* open(path, 'w') failing leaves the file as it was, json.dump failing leaves
\* a truncated file.
save_cache(doc, f, w) ==
    [raised |-> FALSE,
     file |-> IF w = "ok"
              THEN [kind |-> doc.shape, m |-> [k \in DOMAIN doc.m |-> JsonEntry(doc.m[k])]]
              ELSE IF w = "open_fails" THEN f
              ELSE FileOf("garbage")]

NoEntry == [params |-> <<>>, result |-> [none |-> TRUE], timestamp |-> 0]

\* get_cached_result: `key in self.cache` raises TypeError on a number, is a
\* membership test on an array, and self.cache[key] on an object
get_cached_result(doc, params) ==
    LET cache_key == get_cache_key(params)
    IN  IF doc.shape = "num"
        THEN [raised |-> TRUE, hit |-> FALSE, entry |-> NoEntry]
        ELSE IF doc.shape = "map" /\ cache_key \in DOMAIN doc.m
        THEN [raised |-> FALSE, hit |-> TRUE, entry |-> doc.m[cache_key]]
        ELSE [raised |-> FALSE, hit |-> FALSE, entry |-> NoEntry]

\* a save_cache that writes the new entry alone instead of the whole document
save_result_lossy(doc, f, params, result, now, w) ==
    IF doc.shape # "map"
    THEN [raised |-> TRUE, doc |-> doc, file |-> f]
    ELSE LET cache_key == get_cache_key(params)
             entry == [params |-> params, result |-> result, timestamp |-> now]
             doc2  == [doc EXCEPT !.m = Update(doc.m, cache_key :> entry)]
             out   == save_cache([doc EXCEPT !.m = cache_key :> entry], f, w)
         IN  [raised |-> out.raised, doc |-> doc2, file |-> out.file]

\* a save_result that stores the entry under the name of its first parameter
save_result_badkey(doc, f, params, result, now, w) ==
    IF doc.shape # "map"
    THEN [raised |-> TRUE, doc |-> doc, file |-> f]
    ELSE LET cache_key == params[1][1]
             entry == [params |-> params, result |-> result, timestamp |-> now]
             doc2  == [doc EXCEPT !.m = Update(doc.m, cache_key :> entry)]
             out   == save_cache(doc2, f, w)
         IN  [raised |-> out.raised, doc |-> doc2, file |-> out.file]

\* save_result: item assignment raises TypeError unless the document is an object
save_result(doc, f, params, result, now, w) ==
    IF doc.shape # "map"
    THEN [raised |-> TRUE, doc |-> doc, file |-> f]
    ELSE LET cache_key == get_cache_key(params)
             entry == [params |-> params, result |-> result, timestamp |-> now]
             doc2  == [doc EXCEPT !.m = Update(doc.m, cache_key :> entry)]
             out   == save_cache(doc2, f, w)
         IN  [raised |-> out.raised, doc |-> doc2, file |-> out.file]

(***************************************************************************)
(* Values the variables hold while another specification runs              *)
(***************************************************************************)
KeyIdle   == /\ kparams = <<>>
             /\ kkey0 = ""
             /\ ksteps = {}
CacheIdle == /\ cache = [f \in CacheFiles |-> EmptyDoc]
             /\ file = [f \in CacheFiles |-> FileOf("missing")]
             /\ clock = 0
             /\ saved = <<>>
             /\ lastop = <<>>
AnIdle    == an = <<>>
ReqIdle   == /\ req = <<>>
             /\ hist = <<>>
UnitIdle  == /\ nu = <<>>
             /\ gv = <<>>
             /\ mg = <<>>
             /\ dq = <<>>
             /\ rt = <<>>

(***************************************************************************)
(* SpecKey: get_cache_key over parameter mappings, under the rewrites that *)
(* keep the logical parameters: reordering the items, and replacing an     *)
(* HttpUrl by its string form                                              *)
(***************************************************************************)
ParamScalars == {Str("https://a.io"), Url("https://a.io"), Int_("1")}
ParamValues  == ParamScalars
                \cup {List(<<Url("https://a.io")>>), List(<<Int_("1"), Url("https://a.io")>>)}

\* the insertion-ordered items of a dict: no name twice
ParamMappings ==
    {p \in UNION {[1..n -> Keys \X ParamValues] : n \in 1..MaxParams} :
        \A i, j \in 1..Len(p) : i # j => p[i][1] # p[j][1]}

KeyInit ==
    /\ kparams \in ParamMappings
    /\ kkey0 = get_cache_key(kparams)
    /\ ksteps = {}
    /\ CacheIdle /\ AnIdle /\ ReqIdle /\ UnitIdle

\* the same dict built in another insertion order
KPermute(i, j) ==
    /\ i < j
    /\ kparams' = [kparams EXCEPT ![i] = kparams[j], ![j] = kparams[i]]
    /\ ksteps' = ksteps \cup {"permute"}
    /\ UNCHANGED <<kkey0, cache, file, clock, saved, lastop, an, req, hist, unitVars>>

\* a top-level HttpUrl replaced by str(v)
KCoerce(i) ==
    /\ kparams[i][2].t = "url"
    /\ kparams' = [kparams EXCEPT ![i] = <<kparams[i][1], str_url(kparams[i][2])>>]
    /\ ksteps' = ksteps \cup {"coerce"}
    /\ UNCHANGED <<kkey0, cache, file, clock, saved, lastop, an, req, hist, unitVars>>

\* an HttpUrl inside a list replaced by str(v)
KCoerceItem(i) ==
    /\ kparams[i][2].t = "list"
    /\ \E j \in 1..Len(kparams[i][2].l) :
        /\ kparams[i][2].l[j].t = "url"
        /\ kparams' = [kparams EXCEPT ![i] =
               <<kparams[i][1],
                 List([kparams[i][2].l EXCEPT ![j] = str_url(kparams[i][2].l[j])])>>]
    /\ ksteps' = ksteps \cup {"coerce_item"}
    /\ UNCHANGED <<kkey0, cache, file, clock, saved, lastop, an, req, hist, unitVars>>

KeyNext ==
    \/ \E i, j \in 1..Len(kparams) : KPermute(i, j)
    \/ \E i \in 1..Len(kparams) : KCoerce(i)
    \/ \E i \in 1..Len(kparams) : KCoerceItem(i)

SpecKey == KeyInit /\ [][KeyNext]_vars

\* C6: every reordering of the items of a parameter mapping, and every
\* replacement of an HttpUrl value (top-level or inside a list) by its string
\* form, leaves get_cache_key unchanged.
C6_KeyDeterministic == get_cache_key(kparams) = kkey0

\* a mapping of two items that was reordered and had a top-level HttpUrl and
\* one inside a list replaced
C6_Witness ==
    /\ ksteps = {"permute", "coerce", "coerce_item"}
    /\ Len(kparams) = 2
    /\ get_cache_key(kparams) = kkey0

(***************************************************************************)
(* SpecCache: the CacheManager objects and their backing files, driven by  *)
(* get_cached_result and save_result calls and by process restarts         *)
(***************************************************************************)
UrlA == "https://a.io"
UrlB == "https://b.io"
ListingL == "https://list.io/web3"

AnalyzeParams(url) == <<<<"url", Str(url)>>>>

\* DiscoverRequest.dict(): urls as strings, then max_companies
DiscoverParams(urls, max_companies) ==
    <<<<"urls", List([i \in 1..Len(urls) |-> str_url(urls[i])])>>,
      <<"max_companies", Int_(ToString(max_companies))>>>>

CacheParams ==
    {AnalyzeParams(UrlA), DiscoverParams(<<Url(ListingL)>>, 1)}

CacheResults ==
    {dict_(Sentinel(UrlA, "No valid URLs found to crawl")),
     [discovered_companies |-> <<>>, failed_companies |-> <<>>]}

\* the files a process can find when it constructs its CacheManager objects
InitialFiles == {FileOf(k) : k \in {"missing", "garbage", "list", "num", "map"}}

NoOp == [op |-> "none", raised |-> FALSE, hit |-> FALSE]

\* the CacheManager object the cache specification drives
TheCache == "analyzer_result.json"

CacheInit ==
    /\ file \in {[f \in CacheFiles |-> IF f = TheCache THEN i ELSE FileOf("missing")] :
                    i \in InitialFiles}
    /\ cache = [f \in CacheFiles |-> load_cache(file[f])]
    /\ clock = 0
    /\ saved = [f \in CacheFiles |->
                   [cur |-> <<>>, ever |-> {}, kind0 |-> file[f].kind]]
    /\ lastop = NoOp
    /\ KeyIdle /\ AnIdle /\ ReqIdle /\ UnitIdle

CGet(f, p) ==
    LET out == get_cached_result(cache[f], p)
    IN  /\ lastop' = [op |-> "get", raised |-> out.raised, hit |-> out.hit]
        /\ UNCHANGED <<cache, file, clock, saved, keyVars, an, req, hist, unitVars>>

CSave(f, p, r, w) ==
    LET out == save_result(cache[f], file[f], p, r, clock, w)
    IN  /\ clock < MaxClock
        /\ clock' = clock + 1
        /\ cache' = [cache EXCEPT ![f] = out.doc]
        /\ file' = [file EXCEPT ![f] = out.file]
        /\ saved' = IF out.raised THEN saved
                     ELSE [saved EXCEPT ![f].cur = Update(@, get_cache_key(p) :>
                                                       [params |-> p, result |-> r]),
                                        ![f].ever = @ \cup {get_cache_key(p)}]
        /\ lastop' = [op |-> "save", raised |-> out.raised, hit |-> FALSE]
        /\ UNCHANGED <<keyVars, an, req, hist, unitVars>>

\* the process restarts: __init__ builds a new object from the file
CRestart(f) ==
    /\ cache' = [cache EXCEPT ![f] = load_cache(file[f])]
    /\ saved' = [saved EXCEPT ![f].cur = <<>>]
    /\ lastop' = [NoOp EXCEPT !.op = "load"]
    /\ UNCHANGED <<file, clock, keyVars, an, req, hist, unitVars>>

CacheNext ==
    \/ \E p \in CacheParams : CGet(TheCache, p)
    \/ \E p \in CacheParams, r \in CacheResults, w \in WriteOutcomes :
           CSave(TheCache, p, r, w)
    \/ CRestart(TheCache)

SpecCache == CacheInit /\ [][CacheNext]_vars

\* C7: once save_result(p, r) has returned, get_cached_result(p) is a hit whose
\* result is r, until p is written again; on a store whose file did not exist
\* and that was never given p, get_cached_result(p) is a miss.
C7_RoundTrip ==
    LET h == saved[TheCache]
    IN  /\ \A k \in DOMAIN h.cur :
              LET out == get_cached_result(cache[TheCache], h.cur[k].params)
              IN  ~out.raised /\ out.hit /\ out.entry.result = h.cur[k].result
        /\ h.kind0 = "missing" =>
              \A p \in CacheParams :
                  get_cache_key(p) \notin h.ever =>
                      LET out == get_cached_result(cache[TheCache], p)
                      IN  ~out.raised /\ ~out.hit

\* both parameter mappings were saved, one of them twice, on a store that
\* started without a file, and the last get was a hit
C7_Witness ==
    /\ saved[TheCache].kind0 = "missing"
    /\ DOMAIN saved[TheCache].cur = {get_cache_key(p) : p \in CacheParams}
    /\ clock = 3
    /\ lastop.op = "get" /\ lastop.hit

\* C9: with a missing or corrupt backing file (unparseable, or JSON that is not
\* a key-to-entry mapping) the cache behaves as an empty cache: no operation
\* raises, a get for parameters never saved is a miss, and a get after a save
\* is a hit.
C9_CorruptIsEmpty ==
    LET h == saved[TheCache]
    IN  h.kind0 \in {"missing", "garbage", "list", "num"} =>
            /\ ~lastop.raised
            /\ \A p \in CacheParams :
                  get_cache_key(p) \notin h.ever =>
                      ~get_cached_result(cache[TheCache], p).hit
            /\ \A k \in DOMAIN h.cur :
                  get_cached_result(cache[TheCache], h.cur[k].params).hit

(***************************************************************************)
(* SpecAnalyze: one run of CompanyAnalyzer.analyze_company                 *)
(***************************************************************************)
EmptyFrag ==
    [company_name |-> "", background |-> "", founders |-> <<>>, funding |-> <<>>,
     legal_issues |-> <<>>, security_assessment |-> <<>>, user_reviews |-> <<>>,
     overall_summary |-> "", job_positions |-> <<>>]

FragAcme   == [EmptyFrag EXCEPT !.company_name = "Acme",
                                !.founders = <<Obj(<<<<"name", "A">>>>)>>]
FragJobs   == [EmptyFrag EXCEPT !.job_positions = <<Str("Engineer")>>]
FragScalar == [EmptyFrag EXCEPT !.company_name = "Acme", !.founders = <<Str("Alice")>>]
FragBeta   == [EmptyFrag EXCEPT !.company_name = "Beta", !.background = "b"]

\* the page fragments the extraction model returns
Fragments == {EmptyFrag, FragAcme, FragJobs, FragScalar, FragBeta}

\* the JSON texts and values a crawl result can carry
JGarbage   == [shape |-> "garbage"]
JNum       == [shape |-> "num"]
JObj(frag) == [shape |-> "obj", frag |-> frag]
JList(fs)  == [shape |-> "list", items |-> fs]

JsonValues == {JNum, JList(<<>>)} \cup {JObj(f) : f \in Fragments}
              \cup {JList(<<f>>) : f \in Fragments}

\* crawler.arun: raises, or returns [success, content]; content is None, a
\* JSON text (enc "str") or an already decoded value (enc "native")
NoContent == [enc |-> "none", json |-> JNum]
CrawlResults ==
    {[kind |-> "raise", success |-> FALSE, content |-> NoContent]}
    \cup {[kind |-> "result", success |-> b, content |-> NoContent] : b \in BOOLEAN}
    \cup {[kind |-> "result", success |-> TRUE, content |-> [enc |-> e, json |-> j]] :
             e \in {"str", "native"}, j \in JsonValues}
    \cup {[kind |-> "result", success |-> TRUE,
            content |-> [enc |-> "str", json |-> JGarbage]]}

\* truthiness of result.extracted_content: None and an empty list are falsy
Truthy(content) ==
    /\ content.enc # "none"
    /\ ~(content.enc = "native" /\ content.json = JList(<<>>))

\* lines 274-291 for one URL: the fragment appended to all_extracted_data, if any
extract_fragment(res) ==
    IF res.kind = "raise" THEN [ok |-> FALSE, frag |-> EmptyFrag]
    ELSE IF ~(res.success /\ Truthy(res.content)) THEN [ok |-> FALSE, frag |-> EmptyFrag]
    ELSE LET j == res.content.json
         IN  IF j.shape = "garbage" THEN [ok |-> FALSE, frag |-> EmptyFrag]
             ELSE IF j.shape = "list" /\ j.items # <<>>
                  THEN [ok |-> TRUE, frag |-> j.items[1]]
             ELSE IF j.shape = "obj" THEN [ok |-> TRUE, frag |-> j.frag]
             ELSE [ok |-> FALSE, frag |-> EmptyFrag]

\* lines 274-291 for one URL: how the iteration ended.  "raise" is an exception
\* of crawler.arun (a timeout or another I/O failure), "rejected" a result that
\* fails the test of line 279, "unparseable" a json.loads that raises,
\* "not_dict" a decoded value that is no object, "ok" an appended fragment
crawl_status(res) ==
    IF res.kind = "raise" THEN "raise"
    ELSE IF ~(res.success /\ Truthy(res.content)) THEN "rejected"
    ELSE IF res.content.json.shape = "garbage" THEN "unparseable"
    ELSE IF extract_fragment(res).ok THEN "ok" ELSE "not_dict"

NoValue == [cls |-> "none", d |-> <<>>]

\* an analyze_company without the outer except clause
analyze_return_raising(base_url, exc, value) ==
    IF exc # "" THEN [raised |-> TRUE, value |-> NoValue]
    ELSE [raised |-> FALSE, value |-> value]

\* lines 320-333: any exception ends in the sentinel record
analyze_return(base_url, exc, value) ==
    IF exc # "" THEN [raised |-> FALSE, value |-> Sentinel(base_url, exc)]
    ELSE [raised |-> FALSE, value |-> value]

\* lines 293-316: merge the fragments and build the CompanyInfo
merge_step(all_extracted_data, base_url) ==
    IF all_extracted_data = <<>>
    THEN [exc |-> "No content was successfully extracted", value |-> NoValue]
    ELSE LET d == merged_data(all_extracted_data, base_url)
         IN  IF CompanyInfoValid(d) THEN [exc |-> "", value |-> CompanyInfo(d)]
             ELSE [exc |-> "validation error for CompanyInfo", value |-> NoValue]

Paths == {"", "about", "careers"}

\* the outcomes of get_valid_urls: the confirmed URLs in the iteration order
\* of the set, or an exception
ValidOutcomes ==
    {v \in UNION {[1..n -> Paths] : n \in 0..MaxPages} :
        \A i, j \in 1..Len(v) : i # j => v[i] # v[j]}

AnalyzeInit ==
    /\ an \in {[pc |-> "validating", base_url |-> u, valid |-> <<>>, todo |-> <<>>,
                  frags |-> <<>>, crawled |-> <<>>, session |-> "none", exc |-> "",
                  threw |-> {},
                  value |-> NoValue, raised |-> FALSE] : u \in {UrlA, UrlB}}
    /\ KeyIdle /\ CacheIdle /\ ReqIdle /\ UnitIdle

AnValidate(v) ==
    /\ an.pc = "validating"
    /\ an' = IF v = <<>>
              THEN [an EXCEPT !.pc = "return", !.exc = "No valid URLs found to crawl"]
              ELSE [an EXCEPT !.pc = "enter", !.valid = v, !.todo = v]
    /\ UNCHANGED <<keyVars, cacheVars, req, hist, unitVars>>

AnValidateRaises ==
    /\ an.pc = "validating"
    /\ an' = [an EXCEPT !.pc = "return", !.exc = "validation error",
                         !.threw = @ \cup {"validate"}]
    /\ UNCHANGED <<keyVars, cacheVars, req, hist, unitVars>>

\* lines 244-267: the browser session is entered and started
AnEnter(o) ==
    /\ an.pc = "enter"
    /\ an' = IF o = "ok" THEN [an EXCEPT !.pc = "extract", !.session = "open"]
              ELSE IF o = "enter_raises"
              THEN [an EXCEPT !.pc = "return", !.exc = "browser error",
                              !.threw = @ \cup {"enter"}]
              ELSE [an EXCEPT !.pc = "return", !.exc = "browser error",
                              !.session = "closed", !.threw = @ \cup {"enter"}]
    /\ UNCHANGED <<keyVars, cacheVars, req, hist, unitVars>>

\* a loop over valid_urls that is left at the first URL that fails
AnCrawl_aborting(res) ==
    /\ an.pc = "extract"
    /\ an.todo # <<>>
    /\ LET x == extract_fragment(res)
       IN  an' = [an EXCEPT !.todo = IF x.ok THEN Tail(@) ELSE <<>>,
                            !.frags = IF x.ok THEN Append(@, x.frag) ELSE @,
                            !.crawled = Append(@, [url |-> Head(an.todo),
                                                   status |-> crawl_status(res),
                                                   frag |-> x.frag])]
    /\ UNCHANGED <<keyVars, cacheVars, req, hist, unitVars>>

\* lines 271-291: one iteration of the loop over valid_urls: one call of
\* crawler.arun for the URL, whose outcome is kept in crawled
AnCrawl(res) ==
    /\ an.pc = "extract"
    /\ an.todo # <<>>
    /\ LET x == extract_fragment(res)
       IN  an' = [an EXCEPT !.todo = Tail(@),
                            !.frags = IF x.ok THEN Append(@, x.frag) ELSE @,
                            !.crawled = Append(@, [url |-> Head(an.todo),
                                                   status |-> crawl_status(res),
                                                   frag |-> x.frag])]
    /\ UNCHANGED <<keyVars, cacheVars, req, hist, unitVars>>

AnMerge ==
    /\ an.pc = "extract"
    /\ an.todo = <<>>
    /\ LET m == merge_step(an.frags, an.base_url)
       IN  an' = [an EXCEPT !.pc = "close", !.exc = m.exc, !.value = m.value,
                            !.threw = IF m.exc # "" /\ an.frags # <<>>
                                      THEN @ \cup {"merge"} ELSE @]
    /\ UNCHANGED <<keyVars, cacheVars, req, hist, unitVars>>

\* a finally clause that leaves the session as it is
AnClose_skipping(ok) ==
    /\ an.pc = "close"
    /\ an' = IF ok THEN [an EXCEPT !.pc = "return"]
              ELSE [an EXCEPT !.pc = "return", !.exc = "close error", !.value = NoValue,
                              !.threw = @ \cup {"close"}]
    /\ UNCHANGED <<keyVars, cacheVars, req, hist, unitVars>>

\* lines 317-318: crawler.close() in the finally clause; the session counts
\* as closed once close() was called on it, whether or not the call raised
AnClose(ok) ==
    /\ an.pc = "close"
    /\ an' = IF ok THEN [an EXCEPT !.pc = "return", !.session = "closed"]
              ELSE [an EXCEPT !.pc = "return", !.session = "closed",
                              !.exc = "close error", !.value = NoValue,
                              !.threw = @ \cup {"close"}]
    /\ UNCHANGED <<keyVars, cacheVars, req, hist, unitVars>>

AnReturn ==
    /\ an.pc = "return"
    /\ LET out == analyze_return(an.base_url, an.exc, an.value)
       IN  an' = [an EXCEPT !.pc = "done", !.value = out.value, !.raised = out.raised]
    /\ UNCHANGED <<keyVars, cacheVars, req, hist, unitVars>>

AnalyzeNext ==
    \/ \E v \in ValidOutcomes : AnValidate(v)
    \/ AnValidateRaises
    \/ \E o \in {"ok", "enter_raises", "start_raises"} : AnEnter(o)
    \/ \E res \in CrawlResults : AnCrawl(res)
    \/ AnMerge
    \/ \E ok \in BOOLEAN : AnClose(ok)
    \/ AnReturn

SpecAnalyze == AnalyzeInit /\ [][AnalyzeNext]_vars

\* every await of analyze_company returns or raises: a run never stops midway
SpecAnalyzeLive == SpecAnalyze /\ WF_vars(AnalyzeNext)

\* C4: analyze_company never raises to its caller; when validation yields no
\* URL, no fragment is extracted or a step throws, it returns the record with
\* company_name "Unknown", the requested URL as website, empty founders,
\* funding, legal_issues, user_reviews, job_positions and security_assessment,
\* and the failure reason in overall_summary.
C4_NeverRaises ==
    an.pc = "done" =>
        /\ ~an.raised
        /\ (an.valid = <<>> \/ an.frags = <<>> \/ an.threw # {}) =>
              /\ an.exc # ""
              /\ an.value.cls = "CompanyInfo"
              /\ an.value.d.company_name = "Unknown"
              /\ an.value.d.website = an.base_url
              /\ an.value.d.founders = <<>>
              /\ an.value.d.funding = <<>>
              /\ an.value.d.legal_issues = <<>>
              /\ an.value.d.user_reviews = <<>>
              /\ an.value.d.job_positions = <<>>
              /\ an.value.d.security_assessment = <<>>
              /\ an.value.d.overall_summary = FailedSummary(an.exc)

\* a run that crawled two pages, extracted a fragment and failed while merging
C4_Witness ==
    /\ an.pc = "done"
    /\ Len(an.valid) = 2
    /\ an.frags # <<>>
    /\ an.threw = {"merge"}
    /\ an.value = Sentinel(an.base_url, "validation error for CompanyInfo")

\* C5: when validation yields at least one URL and at least one page yields an
\* object fragment (list fields holding objects or scalars), analyze_company
\* returns the merge of the extracted fragments and not the failure record.
C5_DoneReturnsMerge ==
    (an.pc = "done" /\ an.valid # <<>> /\ an.frags # <<>>
        /\ an.threw \cap {"validate", "enter", "close"} = {}) =>
        an.value = CompanyInfo(merged_data(an.frags, an.base_url))

\* the order in which get_valid_urls submits its candidates (lines 134-136, 184, 190)
SubmissionOrder == <<"", "about", "careers">>

\* the fragments the crawled URLs yielded, in the order of crawled
RECURSIVE OkFrags(_)
OkFrags(crawled) ==
    IF crawled = <<>> THEN <<>>
    ELSE IF Head(crawled).status = "ok"
         THEN <<Head(crawled).frag>> \o OkFrags(Tail(crawled))
         ELSE OkFrags(Tail(crawled))

\* the entries of crawled for the URLs of order, in that order
RECURSIVE InOrder(_, _)
InOrder(crawled, order) ==
    IF order = <<>> THEN <<>>
    ELSE SelectSeq(crawled, LAMBDA c : c.url = Head(order)) \o InOrder(crawled, Tail(order))

\* C21: the record a run builds is a function of the confirmed URLs and of the
\* fragment each one yields: it is the merge of the fragments taken in the
\* fixed submission order of the URLs, whatever order the set of confirmed
\* URLs is iterated in.
C21_SubmissionOrder ==
    an.pc = "close" =>
        [exc |-> an.exc, value |-> an.value]
            = merge_step(OkFrags(InOrder(an.crawled, SubmissionOrder)), an.base_url)

\* the number of calls of crawler.arun issued for url
Attempts(url) == Cardinality({i \in DOMAIN an.crawled : an.crawled[i].url = url})

\* C22: a URL whose extraction call raised is excluded only after three
\* attempts: once the loop has left it, crawler.arun was called three times
\* for it.
C22_Retried ==
    \A i \in DOMAIN an.crawled :
        an.crawled[i].status = "raise" => Attempts(an.crawled[i].url) = 3

\* C28: a URL whose extraction fails (the crawler raises, reports no success
\* or returns content that cannot be used) is left out and nothing else: every
\* confirmed URL is still crawled once, in turn, and the merge is computed from
\* exactly the fragments of the URLs that succeeded.
C28_FailureIsolated ==
    /\ an.frags = OkFrags(an.crawled)
    /\ [i \in DOMAIN an.crawled |-> an.crawled[i].url]
           = SubSeq(an.valid, 1, Len(an.valid) - Len(an.todo))
    /\ an.pc = "close" =>
           /\ Len(an.crawled) = Len(an.valid)
           /\ [exc |-> an.exc, value |-> an.value]
                  = merge_step(OkFrags(an.crawled), an.base_url)

\* the first URL failed, the second yielded a fragment, and a record was
\* merged from that fragment alone
C28_Witness ==
    /\ an.pc = "close"
    /\ Len(an.crawled) = 2
    /\ an.crawled[1].status \in {"raise", "rejected", "unparseable"}
    /\ an.crawled[2].status = "ok"
    /\ an.exc = ""
    /\ an.value = CompanyInfo(merged_data(<<an.crawled[2].frag>>, an.base_url))

\* C29: a session that analyze_company started is closed on every exit path:
\* no run ends with its session open, an open session is eventually closed,
\* and crawler.arun is only ever called on the open session.
C29_SessionClosed ==
    /\ [](an.pc = "done" => an.session # "open")
    /\ [][an'.crawled # an.crawled => an.session = "open" /\ an'.session = "open"]_vars
    /\ (an.session = "open") ~> (an.session = "closed")

\* a run that left the loop by an exception of the merge and closed its session
C29_Witness ==
    /\ an.pc = "done"
    /\ an.session = "closed"
    /\ an.crawled # <<>>
    /\ "merge" \in an.threw

(***************************************************************************)
(* Spec: the analyze and discover request handlers.  A handler runs up to  *)
(* its first await in one step (the cache lookup) and from the completion  *)
(* of its awaited pipeline to its response in another (the result, the     *)
(* save and the return); the collaborators' answers are chosen by the      *)
(* environment.  No cache file exists when the process starts, and the     *)
(* entries' timestamps are not told apart (the clock stands still).        *)
(***************************************************************************)
AnalyzerCache == "analyzer_result.json"
DiscoverCache == "discover_result.json"

Reqs == 1..MaxReqs

\* what one run of the validator and the crawler yields: the number of URLs
\* confirmed valid and the fragments appended to all_extracted_data
RunFailed == [valid |-> 0, frags |-> <<>>]
RunDone   == [valid |-> 1, frags |-> <<FragAcme>>]
AnalysisRuns == {RunFailed, RunDone}

\* CompanyAnalyzer.analyze_company as a function of what its collaborators yield
analyze_company(base_url, run) ==
    IF run.valid = 0
    THEN analyze_return(base_url, "No valid URLs found to crawl", NoValue)
    ELSE LET m == merge_step(run.frags, base_url)
         IN  analyze_return(base_url, m.exc, m.value)

\* the state analyze_company ends in (spec 4.5): Failed when it took the except path
EndState(run) ==
    IF run.valid = 0 \/ merge_step(run.frags, "").exc # "" THEN "Failed" ELSE "Done"

\* CompanyInfo(**d): validation of a field dict
CompanyInfoFromDict(d) ==
    IF CompanyInfoValid(d) THEN [raised |-> FALSE, value |-> CompanyInfo(d)]
    ELSE [raised |-> TRUE, value |-> NoValue]

\* seq[:n] for an integer n
PySliceTo(seq, n) ==
    IF n >= 0 THEN SubSeq(seq, 1, IF n < Len(seq) THEN n ELSE Len(seq))
    ELSE SubSeq(seq, 1, IF Len(seq) + n > 0 THEN Len(seq) + n ELSE 0)

\* the items a listing page's extraction returns: [name, jobs]
ItemX == [name |-> "X", jobs |-> <<"Engineer">>]
ItemY == [name |-> "Y", jobs |-> <<>>]
ListingFull == <<ItemX, ItemY>>
ListingContents == {SubSeq(ListingFull, 1, n) : n \in 0..Len(ListingFull)}

CompanyListItem(name, website, jobs) ==
    [company_name |-> name, website_url |-> website, job_positions |-> jobs]

\* parse_llm_response: the first max_companies items, those with a name
parse_llm_response(content, max_companies) ==
    LET HasName(it) == it.name # ""
        items == SelectSeq(PySliceTo(content, max_companies), HasName)
    IN  [i \in 1..Len(items) |-> CompanyListItem(items[i].name, "", items[i].jobs)]

\* search_serper: raises, or returns the organic results' links
SearchOutcomes ==
    {[kind |-> "raise", organic |-> <<>>],
     [kind |-> "ok", organic |-> <<>>],
     [kind |-> "ok", organic |-> <<UrlA>>]}

\* a get_company_website that falls back to a guessed address
get_company_website_guessing(o) ==
    IF o.kind = "ok" /\ o.organic # <<>> THEN o.organic[1] ELSE UrlB

\* get_company_website: the first link, None ("") without one or on an exception
get_company_website(o) ==
    IF o.kind = "ok" /\ o.organic # <<>> THEN o.organic[1] ELSE ""

\* extract_companies_and_jobs lines 139-155 for one listing page
extract_companies_and_jobs(content, max_companies, search) ==
    LET companies == parse_llm_response(content, max_companies)
    IN  [i \in 1..Len(companies) |->
            [companies[i] EXCEPT !.website_url = get_company_website(search[i])]]

\* an analyze_single_company that keeps the job_positions of the analysis
analyze_single_company_keeping(company, run) ==
    IF company.website_url = ""
    THEN [state |-> "NoWebsite", value |-> NoValue, called |-> FALSE, analyzed |-> NoValue]
    ELSE LET out == analyze_company(company.website_url, run)
         IN  [state |-> EndState(run), value |-> out.value,
              called |-> TRUE, analyzed |-> out.value]

\* analyze_single_company, with the state the analysis ended in; called tells
\* whether analyze_company was invoked and analyzed is the record it returned
analyze_single_company(company, run) ==
    IF company.website_url = ""
    THEN [state |-> "NoWebsite", value |-> NoValue, called |-> FALSE, analyzed |-> NoValue]
    ELSE LET out == analyze_company(company.website_url, run)
         IN  [state |-> EndState(run),
              value |-> CompanyInfo([out.value.d EXCEPT
                            !.job_positions = company.job_positions]),
              called |-> TRUE, analyzed |-> out.value]

\* lines 181-182: the gathered results, one per company, in order
GatherResults(companies, runs) ==
    [i \in 1..Len(companies) |-> analyze_single_company(companies[i], runs[i])]

\* lines 185-189: a truthy result is appended to discovered, its company to
\* failed otherwise
RECURSIVE Partition(_, _, _)
Partition(companies, res, i) ==
    IF i > Len(companies) THEN [discovered |-> <<>>, failed |-> <<>>]
    ELSE LET rest == Partition(companies, res, i + 1)
         IN  IF res[i].value.cls = "CompanyInfo"
             THEN [rest EXCEPT !.discovered = <<res[i].value>> \o @]
             ELSE [rest EXCEPT !.failed = <<companies[i]>> \o @]

analyze_companies_concurrently(companies, runs) ==
    LET res == GatherResults(companies, runs)
    IN  [discovered |-> Partition(companies, res, 1).discovered,
         failed     |-> Partition(companies, res, 1).failed,
         units      |-> [i \in 1..Len(companies) |->
                            [company |-> companies[i], state |-> res[i].state]]]

DiscoverResponse(discovered, failed) ==
    [cls |-> "DiscoverResponse", discovered_companies |-> discovered,
     failed_companies |-> failed]

\* DiscoverResponse.dict(): the nested models as dicts
DiscoverDict(resp) ==
    [discovered_companies |-> [i \in 1..Len(resp.discovered_companies) |->
                                  dict_(resp.discovered_companies[i])],
     failed_companies |-> resp.failed_companies]

\* DiscoverResponse(**d): the nested dicts validated as CompanyInfo
DiscoverFromDict(d) ==
    IF \A i \in 1..Len(d.discovered_companies) : CompanyInfoValid(d.discovered_companies[i])
    THEN [raised |-> FALSE,
          value |-> DiscoverResponse([i \in 1..Len(d.discovered_companies) |->
                                        CompanyInfo(d.discovered_companies[i])],
                                     d.failed_companies)]
    ELSE [raised |-> TRUE, value |-> NoValue]

\* the discover requests clients send
DiscoverRequests == {[urls |-> <<Url(ListingL)>>, max_companies |-> n] : n \in {1, 2}}

IdleReq ==
    [pc |-> "idle", kind |-> "none", params |-> <<>>, request |-> <<>>, after |-> {},
     called |-> FALSE, status |-> 0, body |-> NoValue, computed |-> NoValue,
     wrote |-> "none", astate |-> "none", units |-> <<>>]

ReqInit ==
    /\ req = [r \in Reqs |-> IdleReq]
    /\ cache = [f \in CacheFiles |-> load_cache(FileOf("missing"))]
    /\ file = [f \in CacheFiles |-> FileOf("missing")]
    /\ clock = 0
    /\ hist = [f \in CacheFiles |-> "none"]
    /\ saved = <<>>
    /\ lastop = <<>>
    /\ KeyIdle /\ AnIdle /\ UnitIdle

DoneReqs == {q \in Reqs : req[q].pc = "done"}
CanBegin(r) == req[r].pc = "idle" /\ (IF r = 1 THEN TRUE ELSE req[r - 1].pc # "idle")

\* the response of a handler whose try block raised: HTTPException(500)
Error500(rq) == [rq EXCEPT !.pc = "done", !.status = 500]

\* routers/analyzer.py lines 18-23: the cache lookup
AnalyzeBegin(r, url) ==
    /\ CanBegin(r)
    /\ LET params == AnalyzeParams(url)
           got == get_cached_result(cache[AnalyzerCache], params)
           rq  == [req[r] EXCEPT !.kind = "analyze", !.params = params, !.request = url,
                                 !.after = DoneReqs]
           obj == CompanyInfoFromDict(got.entry.result)
       IN  req' = [req EXCEPT ![r] =
                      IF got.raised THEN Error500(rq)
                      ELSE IF got.hit
                      THEN IF obj.raised THEN Error500(rq)
                           ELSE [rq EXCEPT !.pc = "done", !.status = 200, !.body = obj.value]
                      ELSE [rq EXCEPT !.pc = "computing"]]
    /\ UNCHANGED <<keyVars, cache, file, clock, saved, lastop, an, hist, unitVars>>

\* routers/analyzer.py lines 25-33: the analysis has completed
AnalyzeEnd(r, run, w) ==
    /\ req[r].pc = "computing"
    /\ req[r].kind = "analyze"
    /\ \E out \in {analyze_company(req[r].request, run)} :
       \E sv \in {save_result(cache[AnalyzerCache], file[AnalyzerCache], req[r].params,
                              dict_(out.value), clock, w)} :
       \E rq \in {[req[r] EXCEPT !.called = TRUE, !.astate = EndState(run),
                                  !.computed = out.value, !.wrote = w]} :
           /\ req' = [req EXCEPT ![r] =
                         IF out.raised \/ sv.raised THEN Error500(rq)
                         ELSE [rq EXCEPT !.pc = "done", !.status = 200, !.body = out.value]]
           /\ cache' = [cache EXCEPT ![AnalyzerCache] = IF out.raised THEN @ ELSE sv.doc]
           /\ file' = [file EXCEPT ![AnalyzerCache] = IF out.raised THEN @ ELSE sv.file]
           /\ hist' = [hist EXCEPT ![AnalyzerCache] = IF out.raised THEN @ ELSE w]
    /\ UNCHANGED <<keyVars, clock, saved, lastop, an, unitVars>>

\* routers/discover.py lines 196-201: the cache lookup
DiscoverBegin(r, request) ==
    /\ CanBegin(r)
    /\ LET params == DiscoverParams(request.urls, request.max_companies)
           got == get_cached_result(cache[DiscoverCache], params)
           rq  == [req[r] EXCEPT !.kind = "discover", !.params = params,
                                 !.request = request, !.after = DoneReqs]
           obj == DiscoverFromDict(got.entry.result)
       IN  req' = [req EXCEPT ![r] =
                      IF got.raised THEN Error500(rq)
                      ELSE IF got.hit
                      THEN IF obj.raised THEN Error500(rq)
                           ELSE [rq EXCEPT !.pc = "done", !.status = 200, !.body = obj.value]
                      ELSE [rq EXCEPT !.pc = "computing"]]
    /\ UNCHANGED <<keyVars, cache, file, clock, saved, lastop, an, hist, unitVars>>

\* lines 208-213: the candidates of all listing pages, in request order
RECURSIVE AllCompanies(_, _, _, _)
AllCompanies(lists, max_companies, search, i) ==
    IF i > Len(lists) THEN <<>>
    ELSE extract_companies_and_jobs(lists[i], max_companies, search)
         \o AllCompanies(lists, max_companies, search, i + 1)

\* lines 215-216: no candidate at all, the empty response is returned unsaved
DiscoverEndEmpty(r, lists, search) ==
    /\ req[r].pc = "computing"
    /\ req[r].kind = "discover"
    /\ AllCompanies(lists, req[r].request.max_companies, search, 1) = <<>>
    /\ req' = [req EXCEPT ![r] =
                  [@ EXCEPT !.pc = "done", !.status = 200, !.called = TRUE,
                            !.body = DiscoverResponse(<<>>, <<>>),
                            !.computed = DiscoverResponse(<<>>, <<>>)]]
    /\ UNCHANGED <<keyVars, cache, file, clock, saved, lastop, an, hist, unitVars>>

\* lines 218-237: truncate, analyze, partition, save and return
DiscoverEnd(r, lists, search, runs, w) ==
    /\ req[r].pc = "computing"
    /\ req[r].kind = "discover"
    /\ \E all_companies \in {AllCompanies(lists, req[r].request.max_companies, search, 1)} :
       \E part \in {analyze_companies_concurrently(
                       PySliceTo(all_companies, req[r].request.max_companies), runs)} :
       \E result \in {DiscoverResponse(part.discovered, part.failed)} :
       \E sv \in {save_result(cache[DiscoverCache], file[DiscoverCache], req[r].params,
                              DiscoverDict(result), clock, w)} :
       \E rq \in {[req[r] EXCEPT !.called = TRUE, !.computed = result, !.wrote = w,
                                  !.units = part.units]} :
           /\ all_companies # <<>>
           /\ req' = [req EXCEPT ![r] =
                         IF sv.raised THEN Error500(rq)
                         ELSE [rq EXCEPT !.pc = "done", !.status = 200, !.body = result]]
           /\ cache' = [cache EXCEPT ![DiscoverCache] = sv.doc]
           /\ file' = [file EXCEPT ![DiscoverCache] = sv.file]
           /\ hist' = [hist EXCEPT ![DiscoverCache] = w]
    /\ UNCHANGED <<keyVars, clock, saved, lastop, an, unitVars>>

\* line 210: an extraction that raises ends the request with HTTPException(500)
DiscoverListingRaises(r) ==
    /\ req[r].pc = "computing"
    /\ req[r].kind = "discover"
    /\ req' = [req EXCEPT ![r] = Error500([@ EXCEPT !.called = TRUE])]
    /\ UNCHANGED <<keyVars, cache, file, clock, saved, lastop, an, hist, unitVars>>

\* what the collaborators yield during one discover request: the content of
\* each listing page, the search result for each candidate and the analysis
\* run of each candidate
SearchNone  == [kind |-> "ok", organic |-> <<>>]
SearchFound == [kind |-> "ok", organic |-> <<UrlA>>]
SearchError == [kind |-> "raise", organic |-> <<>>]
\* a response without the "organic" key (line 44)
SearchAbsent == [kind |-> "absent", organic |-> <<>>]

DiscoverRuns ==
    {[lists |-> <<<<>>>>,           search |-> <<SearchNone, SearchNone>>,
      runs |-> <<RunDone, RunDone>>],
     [lists |-> <<<<ItemX>>>>,      search |-> <<SearchFound, SearchNone>>,
      runs |-> <<RunDone, RunDone>>],
     [lists |-> <<<<ItemX>>>>,      search |-> <<SearchFound, SearchNone>>,
      runs |-> <<RunFailed, RunDone>>],
     [lists |-> <<<<ItemX>>>>,      search |-> <<SearchError, SearchNone>>,
      runs |-> <<RunDone, RunDone>>],
     [lists |-> <<ListingFull>>,    search |-> <<SearchFound, SearchNone>>,
      runs |-> <<RunDone, RunDone>>]}

Next ==
    \/ \E r \in Reqs, url \in {UrlA, UrlB} : AnalyzeBegin(r, url)
    \/ \E r \in Reqs, run \in AnalysisRuns, w \in WriteOutcomes : AnalyzeEnd(r, run, w)
    \/ \E r \in Reqs, request \in DiscoverRequests : DiscoverBegin(r, request)
    \/ \E r \in Reqs, dr \in DiscoverRuns : DiscoverEndEmpty(r, dr.lists, dr.search)
    \/ \E r \in Reqs, dr \in DiscoverRuns, w \in WriteOutcomes :
           DiscoverEnd(r, dr.lists, dr.search, dr.runs, w)
    \/ \E r \in Reqs : DiscoverListingRaises(r)

Spec == ReqInit /\ [][Next]_vars

CacheOf(kind) == IF kind = "analyze" THEN AnalyzerCache ELSE DiscoverCache

\* the failure record of analyze_company, whatever job_positions it was given later
IsSentinel(d) ==
    /\ d.company_name = "Unknown"
    /\ d.background = "Information not available"
    /\ d.founders = <<>> /\ d.funding = <<>> /\ d.legal_issues = <<>>
    /\ d.user_reviews = <<>> /\ d.security_assessment = <<>>

\* C1: after an analyze or discover request with parameters p completed with a
\* normal response, every later request with the same p returns the same
\* response without any validation, extraction, search or analysis call, and
\* the entry is still in the cache.
C1_Idempotent ==
    \A a, b \in Reqs :
        (/\ req[b].pc = "done"
         /\ a \in req[b].after
         /\ req[a].status = 200
         /\ req[a].kind = req[b].kind
         /\ get_cache_key(req[a].params) = get_cache_key(req[b].params)) =>
            /\ req[b].status = 200
            /\ req[b].body = req[a].body
            /\ ~req[b].called
            /\ get_cache_key(req[a].params) \in DOMAIN cache[CacheOf(req[a].kind)].m

\* C31: of two concurrent analyze requests with the same URL, started on an
\* empty cache, at most one runs the analysis pipeline: the other is served
\* from the first one's result.
C31_SingleFlight ==
    \A a, b \in Reqs :
        (/\ a # b
         /\ req[a].kind = "analyze" /\ req[b].kind = "analyze"
         /\ req[a].request = req[b].request
         /\ a \notin req[b].after /\ b \notin req[a].after) =>
            ~(/\ req[a].pc = "computing" \/ req[a].called
              /\ req[b].pc = "computing" \/ req[b].called)

\* C2: a cache entry is created only by a successful computation: no entry of
\* the analyzer cache holds the record of an analysis that ended in Failed.
C2_FailedNotCached ==
    \A k \in DOMAIN cache[AnalyzerCache].m :
        ~IsSentinel(cache[AnalyzerCache].m[k].result)

\* C3: in every discovery result, no record of discovered_companies is the
\* failure record, and every candidate whose analysis ended in Failed is in
\* failed_companies.
C3_Partition ==
    \A r \in Reqs :
        (req[r].pc = "done" /\ req[r].kind = "discover" /\ req[r].status = 200) =>
            /\ \A i \in 1..Len(req[r].body.discovered_companies) :
                  ~IsSentinel(req[r].body.discovered_companies[i].d)
            /\ \A i \in 1..Len(req[r].units) :
                  req[r].units[i].state = "Failed" =>
                      \E j \in 1..Len(req[r].body.failed_companies) :
                          req[r].body.failed_companies[j] = req[r].units[i].company

\* the requests whose save_result call returned
Saved(r) == req[r].pc = "done" /\ req[r].wrote # "none" /\ req[r].status = 200

AllDone == \A r \in Reqs : req[r].pc = "done"

C10_WriteFailureTolerated ==
    \A r \in Reqs :
        (req[r].pc = "done" /\ req[r].called /\ req[r].wrote \in {"open_fails", "dump_fails"}) =>
            /\ req[r].status = 200
            /\ req[r].body = req[r].computed

\* an analyze and a discover request both answered normally although
\* json.dump (open) failed while their result was saved
C10_Witness ==
    /\ req[1].pc = "done" /\ req[1].kind = "analyze" /\ req[1].wrote = "dump_fails"
    /\ req[1].status = 200 /\ req[1].body.cls = "CompanyInfo"
    /\ req[2].pc = "done" /\ req[2].kind = "discover" /\ req[2].wrote = "open_fails"
    /\ req[2].status = 200 /\ req[2].body.discovered_companies # <<>>

(***************************************************************************)
(* SpecUrl: CompanyAnalyzer.normalize_url (services/company_crawler.py).   *)
(* A URL text is a sequence of characters (one-character strings).         *)
(***************************************************************************)
LowerLetters == <<"a", "c", "h", "m", "o", "p", "s", "t", "w", "x">>
UpperLetters == <<"A", "C", "H", "M", "O", "P", "S", "T", "W", "X">>
Letters == {LowerLetters[i] : i \in DOMAIN LowerLetters}
              \cup {UpperLetters[i] : i \in DOMAIN UpperLetters}

\* str.lower() and str.upper() of one character
LowerChar(c) ==
    IF \E i \in DOMAIN UpperLetters : UpperLetters[i] = c
    THEN LowerLetters[CHOOSE i \in DOMAIN UpperLetters : UpperLetters[i] = c]
    ELSE c
UpperChar(c) ==
    IF \E i \in DOMAIN LowerLetters : LowerLetters[i] = c
    THEN UpperLetters[CHOOSE i \in DOMAIN LowerLetters : LowerLetters[i] = c]
    ELSE c
lower(t) == [i \in 1..Len(t) |-> LowerChar(t[i])]

\* t[i:] and whether t has the text p at position i
From(t, i) == SubSeq(t, i, Len(t))
HasAt(t, p, i) == i + Len(p) - 1 <= Len(t) /\ SubSeq(t, i, i + Len(p) - 1) = p

\* the first position from i on holding a character of cs, Len(t) + 1 without one
RECURSIVE FindAny(_, _, _)
FindAny(t, cs, i) ==
    IF i > Len(t) THEN Len(t) + 1
    ELSE IF t[i] \in cs THEN i ELSE FindAny(t, cs, i + 1)

\* str.replace(old, ""): the non-overlapping occurrences of old, left to right
RECURSIVE ReplaceFrom(_, _, _)
ReplaceFrom(t, old, i) ==
    IF i > Len(t) THEN <<>>
    ELSE IF HasAt(t, old, i) THEN ReplaceFrom(t, old, i + Len(old))
    ELSE <<t[i]>> \o ReplaceFrom(t, old, i + 1)
replace(t, old) == ReplaceFrom(t, old, 1)

\* str.rstrip(c)
RECURSIVE rstrip(_, _)
rstrip(t, c) ==
    IF t # <<>> /\ t[Len(t)] = c THEN rstrip(SubSeq(t, 1, Len(t) - 1), c) ELSE t

Www == <<"w", "w", "w", ".">>
SchemeSep == <<":", "/", "/">>

\* urllib.parse.urlparse: the scheme is the text before the first ":" when it
\* starts with a letter and holds scheme characters only (lower-cased); the
\* netloc follows "//" up to the first "/", "?" or "#"; the path ends at the
\* first "?" or "#"
urlparse(url) ==
    LET colon  == FindAny(url, {":"}, 1)
        isSch  == /\ colon > 1 /\ colon <= Len(url)
                  /\ url[1] \in Letters
                  /\ \A i \in 1..(colon - 1) : url[i] \in Letters \cup {"+", "-", "."}
        scheme == IF isSch THEN lower(SubSeq(url, 1, colon - 1)) ELSE <<>>
        rest   == IF isSch THEN From(url, colon + 1) ELSE url
        hasNet == HasAt(rest, <<"/", "/">>, 1)
        delim  == FindAny(rest, {"/", "?", "#"}, 3)
        netloc == IF hasNet THEN SubSeq(rest, 3, delim - 1) ELSE <<>>
        tail   == IF hasNet THEN From(rest, delim) ELSE rest
        stop   == FindAny(tail, {"?", "#"}, 1)
    IN  [scheme |-> scheme, netloc |-> netloc, path |-> SubSeq(tail, 1, stop - 1)]

\* normalize_url: "www." is removed from the host as written, then the whole
\* text is lower-cased; query and fragment are dropped
normalize_url(url) ==
    LET parsed == urlparse(url)
        netloc == replace(parsed.netloc, Www)
    IN  lower(parsed.scheme \o SchemeSep \o netloc \o rstrip(parsed.path, "/"))

\* URL texts: a scheme, up to MaxLabels host prefixes before x.com, a path
Schemes == {<<"h", "t", "t", "p">>, <<"h", "t", "t", "p", "s">>}
HostLabels == {Www, <<"w">>, <<"w", "w", ".">>}
RECURSIVE Prefixes(_)
Prefixes(n) ==
    IF n = 0 THEN {<<>>}
    ELSE Prefixes(n - 1) \cup {l \o p : l \in HostLabels, p \in Prefixes(n - 1)}
PathTexts == {<<>>, <<"/">>, <<"/", "a">>, <<"/", "a", "/">>}
UrlTexts ==
    {sc \o SchemeSep \o pre \o <<"x", ".", "c", "o", "m">> \o pa :
        sc \in Schemes, pre \in Prefixes(MaxLabels), pa \in PathTexts}

UrlInit ==
    /\ nu \in {[raw |-> u, key0 |-> normalize_url(u), steps |-> {}] : u \in UrlTexts}
    /\ KeyIdle /\ CacheIdle /\ AnIdle /\ ReqIdle
    /\ gv = <<>> /\ mg = <<>> /\ dq = <<>> /\ rt = <<>>

UStep(raw, step) ==
    /\ step \notin nu.steps
    /\ nu' = [nu EXCEPT !.raw = raw, !.steps = @ \cup {step}]
    /\ UNCHANGED <<keyVars, cacheVars, an, req, hist, gv, mg, dq, rt>>

\* the same URL under the other scheme
UScheme ==
    LET parsed == urlparse(nu.raw)
        other  == IF parsed.scheme = <<"h", "t", "t", "p">>
                  THEN <<"h", "t", "t", "p", "s">> ELSE <<"h", "t", "t", "p">>
    IN  UStep(other \o From(nu.raw, Len(parsed.scheme) + 1), "scheme")

\* the same URL with "www." put before its host
UWww ==
    LET at == Len(urlparse(nu.raw).scheme) + Len(SchemeSep)
    IN  UStep(SubSeq(nu.raw, 1, at) \o Www \o From(nu.raw, at + 1), "www")

\* the same URL with a trailing slash
USlash == UStep(nu.raw \o <<"/">>, "slash")

\* the same URL with one letter in upper case
UCase(i) ==
    /\ nu.raw[i] # UpperChar(nu.raw[i])
    /\ UStep([nu.raw EXCEPT ![i] = UpperChar(@)], "case")

\* the URL normalized
UNormalize ==
    /\ nu.steps = {}
    /\ UStep(normalize_url(nu.raw), "normalize")

UrlNext ==
    \/ UScheme
    \/ UWww
    \/ USlash
    \/ \E i \in 1..Len(nu.raw) : UCase(i)
    \/ UNormalize

SpecUrl == UrlInit /\ [][UrlNext]_vars

\* C11: normalize_url is idempotent: normalizing a URL a second time leaves
\* it as the first normalization made it, also for hosts with upper-case
\* letters and hosts with several "www." in them.
C11_Idempotent ==
    normalize_url(normalize_url(nu.raw)) = normalize_url(nu.raw)

\* C12: URLs that differ only in scheme, a leading "www.", a trailing slash
\* or letter case have the same normalized identity.
C12_SameIdentity ==
    "normalize" \notin nu.steps => normalize_url(nu.raw) = nu.key0

\* a host without its leading "www.", in lower case
LeadingWwwRemoved(netloc) ==
    LET h == lower(netloc)
    IN  IF HasAt(h, Www, 1) THEN From(h, Len(Www) + 1) ELSE h

\* C32: normalize_url removes "www." only as a leading host prefix: two URLs
\* with the same scheme and path whose hosts differ by more than a leading
\* "www." and letter case never normalize to the same text.
C32_OnlyLeadingWww ==
    \A v \in UrlTexts :
        (/\ urlparse(v).scheme = urlparse(nu.raw).scheme
         /\ urlparse(v).path = urlparse(nu.raw).path
         /\ LeadingWwwRemoved(urlparse(v).netloc)
                # LeadingWwwRemoved(urlparse(nu.raw).netloc)) =>
            normalize_url(v) # normalize_url(nu.raw)

(***************************************************************************)
(* SpecValid: one run of CompanyAnalyzer.get_valid_urls.  Task 1 is        *)
(* check_url(base_url); the tasks after it are the gathered check_url      *)
(* calls of the sub-paths.  A task takes one step for its HEAD request     *)
(* and, when it falls back, one for the GET of verify_with_get; between    *)
(* the steps the other gathered tasks may run.                             *)
(***************************************************************************)
\* the candidate path list (lines 134-136), the root first
paths == <<<<>>, <<"a", "b", "o", "u", "t">>,
           <<"a", "b", "o", "u", "t", "-", "u", "s">>, <<"t", "e", "a", "m">>>>

\* urljoin(base, path) for a relative path: the path replaces what follows
\* the last "/" of the base's path; an empty path gives the base itself
RECURSIVE UpToLastSlash(_)
UpToLastSlash(t) ==
    IF t = <<>> THEN <<"/">>
    ELSE IF t[Len(t)] = "/" THEN t ELSE UpToLastSlash(SubSeq(t, 1, Len(t) - 1))
urljoin(base, path) ==
    IF path = <<>> THEN base
    ELSE LET parsed == urlparse(base)
         IN  parsed.scheme \o SchemeSep \o parsed.netloc
                 \o UpToLastSlash(parsed.path) \o path

\* lines 138-140, and the tasks of lines 184 and 190: the base URL, then
\* every joined URL that differs from it
urls_to_check(base_url) ==
    [i \in 1..(MaxPaths + 1) |-> urljoin(base_url, paths[i])]
tasks(base_url) ==
    <<base_url>> \o SelectSeq(urls_to_check(base_url), LAMBDA u : u # base_url)

\* what a HEAD request yields: status 200 (with the final URL), a status of
\* line 161, another status, an httpx.HTTPError or another exception
HeadOutcomes == {"200", "fallback", "skip", "http_error", "error"}

\* response.url of a HEAD request for url: the URL itself, the same page
\* under its www. host with a trailing slash, or the home page
FinalUrls(url, base_url) ==
    {url,
     LET parsed == urlparse(url)
     IN  parsed.scheme \o SchemeSep \o Www \o parsed.netloc \o parsed.path \o <<"/">>,
     base_url}

\* lines 185-187 without the return: the sub-paths are probed in any case
after_base_probe_all(valid_urls) == "subs"

\* lines 185-187: an empty valid_urls after the base probe is returned at once
after_base(valid_urls) == IF valid_urls = {} THEN "done" ELSE "subs"

BaseTexts ==
    {<<"h", "t", "t", "p", "s", ":", "/", "/", "w", "w", "w", ".", "x", ".", "c", "o", "m", "/">>,
     <<"h", "t", "t", "p", ":", "/", "/", "x", ".", "c", "o", "m", "/", "a">>}

ValidInit ==
    /\ gv \in {[pc |-> "base", base_url |-> normalize_url(u),
                 task |-> [i \in 1..Len(tasks(normalize_url(u))) |-> "todo"],
                 valid_urls |-> {}, probes |-> <<>>, confirmed |-> {},
                 finals |-> {},
                 result |-> {}] : u \in BaseTexts}
    /\ KeyIdle /\ CacheIdle /\ AnIdle /\ ReqIdle
    /\ nu = <<>> /\ mg = <<>> /\ dq = <<>> /\ rt = <<>>

\* the tasks that may take a step: the base task alone before line 190
Runnable(i) ==
    /\ i \in DOMAIN gv.task
    /\ gv.task[i] # "done"
    /\ IF gv.pc = "base" THEN i = 1 ELSE gv.pc = "subs" /\ i > 1

\* task i has finished with valid_urls as given: line 185 after the base
\* task, the end of the gather (line 193) after the last sub-path task
Finish(g, i) ==
    LET t == [g.task EXCEPT ![i] = "done"]
        pc == IF i = 1 THEN after_base(g.valid_urls)
              ELSE IF \A j \in DOMAIN t : t[j] = "done" THEN "done" ELSE "subs"
    IN  [g EXCEPT !.task = t, !.pc = pc,
                  !.result = IF pc = "done" THEN g.valid_urls ELSE @]

\* lines 152-170 and 172-181: the HEAD request of task i and its outcome
VHead(i, o, final) ==
    /\ Runnable(i) /\ gv.task[i] = "todo"
    /\ final \in FinalUrls(tasks(gv.base_url)[i], gv.base_url)
    /\ LET g == [gv EXCEPT !.probes = Append(@, [task |-> i, method |-> "HEAD"])]
       IN  gv' = IF o = "200"
                 THEN Finish([g EXCEPT !.valid_urls = @ \cup {normalize_url(final)},
                                       !.confirmed = @ \cup {i},
                                       !.finals = @ \cup {normalize_url(final)}], i)
                 ELSE IF o \in {"fallback", "http_error"}
                 THEN [g EXCEPT !.task[i] = "get"]
                 ELSE Finish(g, i)
    /\ UNCHANGED <<keyVars, cacheVars, an, req, hist, nu, mg, dq, rt>>

\* lines 164-168 and 175-179: verify_with_get of task i has returned; final
\* is response.url of its GET request (line 109), which followed redirects
\* (line 143) and which verify_with_get does not hand back
VGet(i, ok, final) ==
    /\ Runnable(i) /\ gv.task[i] = "get"
    /\ final \in FinalUrls(tasks(gv.base_url)[i], gv.base_url)
    /\ LET url == tasks(gv.base_url)[i]
           g   == [gv EXCEPT !.probes = Append(@, [task |-> i, method |-> "GET"])]
       IN  gv' = IF ok
                 THEN Finish([g EXCEPT !.valid_urls = @ \cup {normalize_url(url)},
                                       !.confirmed = @ \cup {i},
                                       !.finals = @ \cup {normalize_url(final)}], i)
                 ELSE Finish(g, i)
    /\ UNCHANGED <<keyVars, cacheVars, an, req, hist, nu, mg, dq, rt>>

ValidNext ==
    \/ \E i \in 1..(MaxPaths + 1), o \in HeadOutcomes,
          final \in UNION {FinalUrls(u, gv.base_url) :
                              u \in {tasks(gv.base_url)[j] : j \in DOMAIN gv.task}} :
          VHead(i, o, final)
    \/ \E i \in 1..(MaxPaths + 1), ok \in BOOLEAN,
          final \in UNION {FinalUrls(u, gv.base_url) :
                              u \in {tasks(gv.base_url)[j] : j \in DOMAIN gv.task}} :
          VGet(i, ok, final)

SpecValid == ValidInit /\ [][ValidNext]_vars

\* C13: the base URL is probed before any other candidate; when the base
\* probe does not confirm it valid, get_valid_urls returns the empty set
\* and no sub-path probe was ever issued; a non-empty result implies that
\* the base probe confirmed it valid.
C13_ShortCircuit ==
    /\ gv.probes # <<>> => gv.probes[1].task = 1
    /\ 1 \notin gv.confirmed =>
           /\ \A k \in 1..Len(gv.probes) : gv.probes[k].task = 1
           /\ gv.pc = "done" => gv.result = {}
    /\ (gv.pc = "done" /\ gv.result # {}) => 1 \in gv.confirmed

\* the base probe fell back to GET, which did not confirm it: the run is over
\* with the empty set after these two requests
C13_Witness ==
    /\ gv.pc = "done"
    /\ gv.probes = <<[task |-> 1, method |-> "HEAD"], [task |-> 1, method |-> "GET"]>>
    /\ gv.confirmed = {}
    /\ gv.result = {}
    /\ \E i \in DOMAIN gv.task : i > 1 /\ gv.task[i] = "todo"

\* C30: every URL of valid_urls is the normalized final (post-redirect) URL of
\* a candidate whose probe confirmed it, whether the HEAD request or the GET
\* fallback confirmed it, and a candidate never confirmed contributes nothing:
\* valid_urls is the set of the normalized final URLs of the confirming
\* probes, which finals collects.
C30_FinalUrls ==
    gv.valid_urls = gv.finals

(***************************************************************************)
(* SpecMerge: the merge rules of analyze_company (lines 293-313) applied   *)
(* to a sequence of fragments, the order in which they were appended to    *)
(* all_extracted_data.                                                     *)
(***************************************************************************)
FounderA    == Obj(<<<<"name", "A">>, <<"role", "CEO">>>>)
FounderA2   == Obj(<<<<"role", "CEO">>, <<"name", "A">>>>)
FounderB    == Obj(<<<<"name", "B">>>>)

MFragOne ==
    [EmptyFrag EXCEPT !.company_name = "Acme", !.background = "A",
                      !.overall_summary = "S",
                      !.founders = <<FounderA>>,
                      !.security_assessment = "audit" :> Map("by" :> "X"),
                      !.job_positions = <<Str("Engineer"), Str("engineer")>>]
MFragTwo ==
    [EmptyFrag EXCEPT !.company_name = "Beta", !.background = "B",
                      !.overall_summary = "T",
                      !.founders = <<FounderA2, FounderB>>,
                      !.security_assessment =
                          ("audit" :> Map("year" :> "2024")) @@ ("risk" :> Str("low")),
                      !.job_positions = <<Str("Engineer"), Str("Designer")>>]
MFragPlain ==
    [EmptyFrag EXCEPT !.background = "B",
                      !.funding = <<Str("1"), Int_("1"), Str("seed")>>,
                      !.security_assessment =
                          ("audit" :> Str("passed")) @@ ("risk" :> Map("level" :> "high")),
                      !.job_positions = <<Int_("5"), Str("")>>]
MFragDup ==
    [EmptyFrag EXCEPT !.company_name = "Acme",
                      !.founders = <<FounderB, FounderA, FounderB>>,
                      !.user_reviews = <<Str("seed"), Str("seed")>>,
                      !.job_positions = <<Str("Designer"), Int_("0"), Str("Designer")>>]

\* the fragments the merge is drawn from
MergeFragments == {EmptyFrag, MFragOne, MFragTwo, MFragPlain, MFragDup, FragJobs}

NoMerge == [none |-> TRUE]

MergeInit ==
    /\ mg = [pc |-> "extracting", frags |-> <<>>, out |-> NoMerge]
    /\ KeyIdle /\ CacheIdle /\ AnIdle /\ ReqIdle
    /\ nu = <<>> /\ gv = <<>> /\ dq = <<>> /\ rt = <<>>

\* line 287: a fragment is appended to all_extracted_data
MAppend(f) ==
    /\ mg.pc = "extracting"
    /\ Len(mg.frags) < MaxFrags
    /\ mg' = [mg EXCEPT !.frags = Append(@, f)]
    /\ UNCHANGED <<keyVars, cacheVars, an, req, hist, nu, gv, dq, rt>>

\* lines 293-313: the merged record of a non-empty all_extracted_data
MMerge ==
    /\ mg.pc = "extracting"
    /\ mg.frags # <<>>
    /\ mg' = [mg EXCEPT !.pc = "merged", !.out = merged_data(mg.frags, UrlA)]
    /\ UNCHANGED <<keyVars, cacheVars, an, req, hist, nu, gv, dq, rt>>

MergeNext ==
    \/ \E f \in MergeFragments : MAppend(f)
    \/ MMerge

SpecMerge == MergeInit /\ [][MergeNext]_vars

Merged == mg.pc = "merged"

\* the fragments whose field is non-empty, as positions in fragment order
NonEmptyAt(field) == {i \in 1..Len(mg.frags) : mg.frags[i][field] # ""}
Least(S) == CHOOSE i \in S : \A j \in S : i <= j

\* C14: in a merged record, company_name is the first non-empty company_name
\* across the fragments in fragment order; it is never empty, and it is
\* "Unknown" when no fragment carries a non-empty name.
C14_FirstNameWins ==
    Merged =>
        /\ mg.out.company_name # ""
        /\ mg.out.company_name =
               IF NonEmptyAt("company_name") = {} THEN "Unknown"
               ELSE mg.frags[Least(NonEmptyAt("company_name"))].company_name

\* two fragments carry different names and the first one's is in the record
C14_Witness ==
    /\ Merged
    /\ Len(mg.frags) >= 2
    /\ mg.frags[1].company_name = "Acme"
    /\ mg.frags[Len(mg.frags)].company_name = "Beta"
    /\ mg.out.company_name = "Acme"

\* the non-empty values of a text field in fragment order, a blank line between them
RECURSIVE JoinBlank(_)
JoinBlank(texts) ==
    IF texts = <<>> THEN ""
    ELSE IF texts[1] = "" THEN JoinBlank(Tail(texts))
    ELSE LET rest == JoinBlank(Tail(texts))
         IN  IF rest = "" THEN texts[1] ELSE texts[1] \o "\n\n" \o rest

\* C15: in a merged record, background and overall_summary each equal the
\* non-empty per-fragment values in fragment order joined by a blank line:
\* backgrounds "A" then "B" give "A\n\nB".
C15_BlankLineJoin ==
    Merged =>
        /\ mg.out.background =
               JoinBlank([i \in 1..Len(mg.frags) |-> mg.frags[i].background])
        /\ mg.out.overall_summary =
               JoinBlank([i \in 1..Len(mg.frags) |-> mg.frags[i].overall_summary])

ListFields == {"founders", "funding", "legal_issues", "user_reviews"}

\* the items of a list field over all fragments, in fragment order
RECURSIVE Concat(_, _)
Concat(frags, field) ==
    IF frags = <<>> THEN <<>> ELSE frags[1][field] \o Concat(Tail(frags), field)

\* structural identity: objects with the same members whatever the order of
\* their keys, scalars with the same string form
StructEq(a, b) ==
    IF a.t = "obj" /\ b.t = "obj"
    THEN {a.kv[i] : i \in 1..Len(a.kv)} = {b.kv[i] : i \in 1..Len(b.kv)}
    ELSE a.t # "obj" /\ b.t # "obj" /\ a.s = b.s

\* the items of c from position i on that no earlier item of c is identical to
RECURSIVE FirstOccurrences(_, _)
FirstOccurrences(c, i) ==
    IF i > Len(c) THEN <<>>
    ELSE IF \E j \in 1..(i - 1) : StructEq(c[j], c[i]) THEN FirstOccurrences(c, i + 1)
    ELSE <<c[i]>> \o FirstOccurrences(c, i + 1)

RECURSIVE StatedSecKeys(_, _, _)
StatedSecKeys(ks, sa, merged) ==
    IF ks = <<>> THEN merged
    ELSE LET k == ks[1]
             v == sa[k]
             m2 == IF k \in DOMAIN merged /\ v.t = "map" /\ merged[k].t = "map"
                   THEN Update(merged, k :> Map(Update(merged[k].m, v.m)))
                   ELSE Update(merged, k :> v)
         IN  StatedSecKeys(Tail(ks), sa, m2)

RECURSIVE StatedSecFrom(_, _)
StatedSecFrom(data_list, merged) ==
    IF data_list = <<>> THEN merged
    ELSE LET sa == data_list[1].security_assessment
             ks == SelectSeq(SecKeyOrder, LAMBDA k : k \in DOMAIN sa)
         IN  StatedSecFrom(Tail(data_list), StatedSecKeys(ks, sa, merged))

\* C17: security_assessment is merged key by key in fragment order: when the
\* accumulated and the incoming value of a key are both maps the incoming
\* entries are merged into the accumulated map; in every other case, an
\* accumulated scalar with an incoming map included, the later fragment's
\* value replaces the accumulated one.
C17_SecurityMerge ==
    Merged => mg.out.security_assessment = StatedSecFrom(mg.frags, <<>>)

\* str(job) of the job entries of all fragments, and of the truthy ones
StringifiedJobs(frags, truthyOnly) ==
    UNION {{frags[i].job_positions[j].s :
               j \in {n \in 1..Len(frags[i].job_positions) :
                          truthyOnly => ~Falsy(frags[i].job_positions[n])}} :
           i \in 1..Len(frags)}

\* ascending in Python's string order, which leaves no room for duplicates
JobRank(j) == CHOOSE i \in 1..Len(JobOrder) : JobOrder[i] = j
Ascending(jobs) ==
    \A i, j \in 1..Len(jobs) : i < j => JobRank(jobs[i]) < JobRank(jobs[j])

\* C18: in every record returned by analyze_company, job_positions is the
\* union of the fragments' stringified job entries, without duplicates under
\* case-sensitive equality, sorted ascending.
C18_JobsUnion ==
    Merged =>
        /\ {mg.out.job_positions[i] : i \in 1..Len(mg.out.job_positions)}
               = StringifiedJobs(mg.frags, FALSE)
        /\ Ascending(mg.out.job_positions)

\* C18 as amended: in every merged record, job_positions is the union of the
\* fragments' stringified job entries that are truthy (not the empty string,
\* not 0), without duplicates under case-sensitive equality, sorted ascending.
C18_JobsUnionAmended ==
    Merged =>
        /\ {mg.out.job_positions[i] : i \in 1..Len(mg.out.job_positions)}
               = StringifiedJobs(mg.frags, TRUE)
        /\ Ascending(mg.out.job_positions)

\* "Engineer" comes from two fragments, "engineer" from one, the number 5 and
\* an empty entry from a third: the record lists four titles in order
C18_Witness ==
    /\ Merged
    /\ mg.frags = <<MFragOne, MFragTwo, MFragPlain>>
    /\ mg.out.job_positions = <<"5", "Designer", "Engineer", "engineer">>

(***************************************************************************)
(* SpecDiscover: one discover request that missed the cache                *)
(* (routers/discover.py lines 204-237).  The extraction of each listing    *)
(* page and the analysis of each candidate complete in any order.          *)
(***************************************************************************)
ItemZ == [name |-> "Z", jobs |-> <<"Designer">>]
ListingThree == <<ItemX, ItemY, ItemZ>>

\* result.extracted_content of a listing page: no content, or a list of items
PageContents == {SubSeq(ListingThree, 1, n) : n \in 0..Len(ListingThree)}

\* what search_serper yields for the candidates of one page
PageSearches ==
    {[i \in 1..Len(ListingThree) |-> SearchFound],
     [i \in 1..Len(ListingThree) |-> SearchNone],
     [i \in 1..Len(ListingThree) |-> IF i = 1 THEN SearchError ELSE SearchFound],
     [i \in 1..Len(ListingThree) |-> IF i = 1 THEN SearchFound ELSE SearchAbsent]}

\* an analysis whose pages list a job opening
RunJobs == [valid |-> 1, frags |-> <<FragJobs>>]

\* DiscoverRequest: max_companies is any integer
MaxCompaniesValues == {-1, 0, 1, 2}
Listings == 1..MaxListings

TodoUnit == [state |-> "todo", value |-> NoValue, called |-> FALSE, analyzed |-> NoValue]

DiscInit ==
    /\ dq \in {[pc |-> "extracting", urls |-> n, max_companies |-> m,
                 pstate |-> [i \in 1..n |-> "todo"],
                 plist |-> [i \in 1..n |-> <<>>],
                 psearch |-> [i \in 1..n |-> <<>>],
                 searches |-> 0, failures |-> {},
                 todo |-> <<>>, sought |-> <<>>, res |-> <<>>,
                 status |-> 0, body |-> NoValue] :
                    n \in Listings, m \in MaxCompaniesValues}
    /\ KeyIdle /\ CacheIdle /\ AnIdle /\ ReqIdle
    /\ nu = <<>> /\ gv = <<>> /\ mg = <<>> /\ rt = <<>>

\* lines 212-213: all_companies, the pages' lists in request order
RECURSIVE Extend(_, _)
Extend(lists, i) ==
    IF i > Len(lists) THEN <<>> ELSE lists[i] \o Extend(lists, i + 1)

\* lines 228-237: the response built from the gathered results
Respond(d) ==
    LET part == Partition(d.todo, d.res, 1)
    IN  [d EXCEPT !.pc = "done", !.status = 200,
                  !.body = DiscoverResponse(part.discovered, part.failed)]

\* lines 212-226 once every extraction has returned
AfterExtraction(d) ==
    LET all_companies == Extend(d.plist, 1)
        companies_to_process == PySliceTo(all_companies, d.max_companies)
        d2 == [d EXCEPT !.todo = companies_to_process,
                        !.sought = PySliceTo(Extend(d.psearch, 1), d.max_companies),
                        !.res = [k \in 1..Len(companies_to_process) |-> TodoUnit]]
    IN  IF all_companies = <<>>
        THEN [d EXCEPT !.pc = "done", !.status = 200,
                       !.body = DiscoverResponse(<<>>, <<>>)]
        ELSE IF companies_to_process = <<>> THEN Respond(d2)
        ELSE [d2 EXCEPT !.pc = "analyzing"]

\* extract_companies_and_jobs of page i has returned its companies
DExtract(i, content, search) ==
    /\ dq.pc = "extracting"
    /\ i \in DOMAIN dq.pstate /\ dq.pstate[i] = "todo"
    /\ \E companies \in {extract_companies_and_jobs(content, dq.max_companies, search)} :
       \E d \in {[dq EXCEPT !.pstate[i] = "done", !.plist[i] = companies,
                             !.psearch[i] = SubSeq(search, 1, Len(companies)),
                             !.searches = @ + Len(companies),
                             !.failures = @ \cup
                                 (IF content = <<>> THEN {"no_content"} ELSE {})
                                 \cup (IF \E k \in 1..Len(companies) :
                                            search[k].kind = "raise"
                                       THEN {"search"} ELSE {})]} :
           dq' = IF \A j \in DOMAIN d.pstate : d.pstate[j] = "done"
                 THEN AfterExtraction(d) ELSE d
    /\ UNCHANGED <<keyVars, cacheVars, an, req, hist, nu, gv, mg, rt>>

\* the crawler of page i raises (lines 133-137): the gather of line 210
\* raises and the handler answers with HTTPException(500)
DExtractRaises(i) ==
    /\ dq.pc = "extracting"
    /\ i \in DOMAIN dq.pstate /\ dq.pstate[i] = "todo"
    /\ dq' = [dq EXCEPT !.pc = "done", !.status = 500,
                        !.failures = @ \cup {"listing"}]
    /\ UNCHANGED <<keyVars, cacheVars, an, req, hist, nu, gv, mg, rt>>

\* analyze_single_company of candidate k has returned
DAnalyze(k, run) ==
    /\ dq.pc = "analyzing"
    /\ k \in DOMAIN dq.res /\ dq.res[k].state = "todo"
    /\ \E d \in {[dq EXCEPT !.res[k] = analyze_single_company(dq.todo[k], run),
                             !.failures = @ \cup
                                 (IF dq.todo[k].website_url # "" /\ EndState(run) = "Failed"
                                  THEN {"analysis"} ELSE {})]} :
           dq' = IF \A j \in DOMAIN d.res : d.res[j].state # "todo"
                 THEN Respond(d) ELSE d
    /\ UNCHANGED <<keyVars, cacheVars, an, req, hist, nu, gv, mg, rt>>

DiscNext ==
    \/ \E i \in Listings, content \in PageContents, search \in PageSearches :
           DExtract(i, content, search)
    \/ \E i \in Listings : DExtractRaises(i)
    \/ \E k \in 1..(MaxListings * Len(ListingThree)), run \in AnalysisRuns \cup {RunJobs} :
           DAnalyze(k, run)

SpecDiscover == DiscInit /\ [][DiscNext]_vars

\* C19: for every discover request and every value of max_companies, the
\* number of candidates processed, len(discovered_companies) +
\* len(failed_companies), never exceeds max_companies, and each listing page
\* contributes at most max_companies candidates.
C19_AtMostMax ==
    /\ \A i \in DOMAIN dq.plist :
           dq.pstate[i] = "done" => Len(dq.plist[i]) <= dq.max_companies
    /\ (dq.pc = "done" /\ dq.status = 200) =>
           Len(dq.body.discovered_companies) + Len(dq.body.failed_companies)
               <= dq.max_companies

\* C20: in discovery a failure of one concurrent unit stays in that unit: if
\* the extraction of one listing URL, the website resolution of one
\* candidate or the analysis of one candidate fails, the request still
\* returns the discovered / failed lists instead of an error.
C20_FailureContained ==
    (dq.pc = "done" /\ dq.urls > 1 /\ dq.failures # {}) => dq.status = 200


\* C25: website resolution starts after the truncation to max_companies:
\* search is called only for candidates that survive it, so a request issues
\* at most max_companies search calls.
C25_SearchAfterTruncation ==
    dq.max_companies >= 0 => dq.searches <= dq.max_companies

\* the candidates of the response's failed_companies
Failed(k) == \E j \in DOMAIN dq.body.failed_companies :
                 dq.body.failed_companies[j] = dq.todo[k]

RECURSIVE Discovered(_)
Discovered(k) ==
    IF k > Len(dq.res) THEN <<>>
    ELSE IF dq.res[k].value.cls = "CompanyInfo"
         THEN <<k>> \o Discovered(k + 1) ELSE Discovered(k + 1)

\* C27: every record of discovered_companies is the record its analysis
\* returned with job_positions replaced by the job list of its listing-page
\* candidate and no other field changed.
C27_JobsOverwritten ==
    (dq.pc = "done" /\ dq.status = 200 /\ dq.todo # <<>>) =>
        /\ Len(dq.body.discovered_companies) = Len(Discovered(1))
        /\ \A j \in DOMAIN dq.body.discovered_companies :
               LET k == Discovered(1)[j]
               IN  /\ dq.res[k].called
                   /\ dq.body.discovered_companies[j]
                          = CompanyInfo([dq.res[k].analyzed.d EXCEPT
                                !.job_positions = dq.todo[k].job_positions])

\* a discovered record whose analysis found a job opening and whose candidate
\* lists none: the response carries the candidate's empty list
C27_Witness ==
    /\ dq.pc = "done" /\ dq.status = 200
    /\ \E j \in DOMAIN dq.body.discovered_companies :
           LET k == Discovered(1)[j]
           IN  /\ dq.res[k].analyzed.d.job_positions # <<>>
               /\ dq.todo[k].job_positions = <<>>
               /\ dq.body.discovered_companies[j].d.job_positions = <<>>
               /\ dq.body.discovered_companies[j].d.company_name
                      = dq.res[k].analyzed.d.company_name


(***************************************************************************)
(* SpecRetry: one call of a function wrapped by tenacity's @retry.  The    *)
(* wrapper calls the function; when the call raises an exception that the *)
(* retry predicate accepts and the stop condition does not hold, it sleeps *)
(* for the time the wait strategy gives and calls the function again.      *)
(***************************************************************************)
\* aggregate.py lines 129-134: the decorator of get_company_info
get_company_info_retry ==
    [stop |-> 3, multiplier |-> 1, min |-> 4, max |-> 10,
     retry |-> {"ReadTimeout", "ConnectTimeout", "RequestError"}, reraise |-> TRUE]

\* model_api.py lines 9-13: the decorator of query_model
query_model_retry ==
    [stop |-> 3, multiplier |-> 1, min |-> 4, max |-> 10,
     retry |-> {"RemoteProtocolError", "ReadTimeout", "ConnectTimeout"}, reraise |-> FALSE]

RetryOf(fn) == IF fn = "get_company_info" THEN get_company_info_retry ELSE query_model_retry

\* the exceptions one attempt can end in: the transport errors of
\* client.post, the HTTPStatusError of raise_for_status, the JSONDecodeError of
\* response.json() and the ValueError of a missing token
TransportErrors == {"ReadTimeout", "ConnectTimeout", "RemoteProtocolError", "ConnectError"}
NonTransient    == {"HTTPStatusError", "JSONDecodeError", "ValueError"}
AttemptOutcomes == {"ok"} \cup TransportErrors \cup NonTransient

\* isinstance(e, t): httpx.RequestError is the base class of the transport
\* errors; httpx.HTTPStatusError is not one of its subclasses
IsInstance(e, t) == e = t \/ (t = "RequestError" /\ e \in TransportErrors)

\* a predicate that retries whatever the call raised
retry_if_exception_type_any(types, e) == TRUE

\* retry_if_exception_type(types): the exception is an instance of one of them
retry_if_exception_type(types, e) == \E t \in types : IsInstance(e, t)

\* stop_after_attempt(n), asked after attempt number attempt_number
stop_after_attempt(n, attempt_number) == attempt_number >= n

\* wait_exponential(multiplier, min, max), asked after attempt number
\* attempt_number: multiplier * 2^(attempt_number - 1), kept within [min, max]
wait_exponential(c, attempt_number) ==
    LET result == c.multiplier * 2^(attempt_number - 1)
        capped == IF result < c.max THEN result ELSE c.max
    IN  IF capped > c.min THEN capped ELSE c.min

RetryInit ==
    /\ rt \in {[fn |-> f, pc |-> "call", attempts |-> <<>>, waits |-> <<>>,
                 result |-> "none", error |-> ""] :
                    f \in {"get_company_info", "query_model"}}
    /\ KeyIdle /\ CacheIdle /\ AnIdle /\ ReqIdle
    /\ nu = <<>> /\ gv = <<>> /\ mg = <<>> /\ dq = <<>>

\* one call of the wrapped function has returned or raised o
RAttempt(o) ==
    /\ rt.pc = "call"
    /\ LET c == RetryOf(rt.fn)
           n == Len(rt.attempts) + 1
           r == [rt EXCEPT !.attempts = Append(@, o)]
       IN  rt' = IF o = "ok" THEN [r EXCEPT !.pc = "done", !.result = "returned"]
                 ELSE IF ~retry_if_exception_type(c.retry, o)
                 THEN [r EXCEPT !.pc = "done", !.result = "raised", !.error = o]
                 ELSE IF stop_after_attempt(c.stop, n)
                 THEN [r EXCEPT !.pc = "done", !.result = "raised",
                                !.error = IF c.reraise THEN o ELSE "RetryError"]
                 ELSE [r EXCEPT !.pc = "sleep"]
    /\ UNCHANGED <<keyVars, cacheVars, an, req, hist, nu, gv, mg, dq>>

\* the wrapper has slept for the time the wait strategy gave
RSleep ==
    /\ rt.pc = "sleep"
    /\ rt' = [rt EXCEPT !.pc = "call",
                        !.waits = Append(@, wait_exponential(RetryOf(rt.fn),
                                                             Len(rt.attempts)))]
    /\ UNCHANGED <<keyVars, cacheVars, an, req, hist, nu, gv, mg, dq>>

RetryNext ==
    \/ \E o \in AttemptOutcomes : RAttempt(o)
    \/ RSleep

SpecRetry == RetryInit /\ [][RetryNext]_vars

\* C23: a call of get_company_info or query_model makes at most 3 attempts
\* when its failures are transient (read timeout, connect timeout, transport
\* error) and the failure is surfaced after the last one; a non-transient
\* failure (HTTP status error, malformed body, missing token) is surfaced at
\* once: no attempt follows it, so a call that fails that way first makes
\* exactly 1 attempt.
C23_AttemptCeiling ==
    /\ Len(rt.attempts) <= 3
    /\ \A k \in DOMAIN rt.attempts :
           rt.attempts[k] \in NonTransient =>
               /\ k = Len(rt.attempts)
               /\ rt.pc = "done" /\ rt.result = "raised" /\ rt.error = rt.attempts[k]
    /\ (Len(rt.attempts) = 3 /\ rt.attempts[3] # "ok") =>
           rt.pc = "done" /\ rt.result = "raised"
    /\ rt.pc = "done" => (rt.result = "raised" <=> rt.attempts[Len(rt.attempts)] # "ok")

\* a call of get_company_info whose three attempts timed out and that raised
\* the last timeout
C23_Witness ==
    /\ rt.fn = "get_company_info"
    /\ rt.pc = "done"
    /\ rt.attempts = <<"ReadTimeout", "ConnectTimeout", "ReadTimeout">>
    /\ rt.result = "raised" /\ rt.error = "ReadTimeout"

\* C24: the wait before the k-th retry is min(10, 4 * 2^(k-1)): 4 before the
\* second attempt and 8 before the third.
C24_BackoffDoubles ==
    \A k \in DOMAIN rt.waits :
        rt.waits[k] = (IF 4 * 2^(k - 1) < 10 THEN 4 * 2^(k - 1) ELSE 10)

====
